---- MODULE Spec2Model ----
(***************************************************************************)
(* Model of the vehicle motion / containment / trail-pool core of the 3D   *)
(* mine visualisation.                                                     *)
(*                                                                         *)
(*   TrailObjectPool  src/src/utils/TrailObjectPool.js   (SpecPool)        *)
(*   VehicleManager   src/unnamed/part_003      (SpecSelect, SpecMotion)   *)
(*   Vehicle          src/src/components/Vehicle.js (SpecMotion, SpecSolo) *)
(*   DrivableVolume   src/unnamed/part_004          (SpecMotion, SpecQ)    *)
(*   MathUtils        src/src/utils/MathUtils.js         (SpecQ)           *)
(*                                                                         *)
(* Representation.  Coordinates are integers counting half world units,    *)
(* angles are integers counting degrees (so Math.PI is 180), a nullable    *)
(* reference is the empty sequence (null) or a one-element sequence, and   *)
(* a nullable id is the string "null".  Vehicle ids are non-empty strings. *)
(***************************************************************************)
EXTENDS Integers, Sequences, FiniteSets, TLC

VARIABLES
  \* TrailObjectPool
  initialSize, maxSize, geometryPool, activeTrails, poolCall,
  \* DrivableVolume
  volume, volumeCall,
  \* VehicleManager (and the Vehicle instances it owns)
  vehicles, selectedVehicleId, managerVolume, trailsEnabled, scene, mgrCall,
  \* the last containment query made through MathUtils / Vehicle
  query,
  \* a Vehicle driven directly through its own methods, and the last call
  solo, soloCall,
  \* Experience (with the UIController fields it reads and writes) and the
  \* last event it handled
  experience, expCall,
  \* WebSocketService, with its sockets and timers, and its last callback
  service, serviceCall,
  \* EventBus and the last call made on it
  bus, busCall,
  \* VehicleAPIService and its last call or timer callback
  api, apiCall,
  \* the life cycle of the Experience (init, render loop, dispose)
  life, lifeCall

poolVars == <<initialSize, maxSize, geometryPool, activeTrails, poolCall>>
volVars  == <<volume, volumeCall>>
mgrVars  == <<vehicles, selectedVehicleId, managerVolume, trailsEnabled,
             scene, mgrCall>>
soloVars == <<solo, soloCall>>
expVars  == <<experience, expCall>>
wsVars   == <<service, serviceCall>>
busVars  == <<bus, busCall>>
apiVars  == <<api, apiCall>>
lifeVars == <<life, lifeCall>>
vars     == <<poolVars, volVars, mgrVars, query, soloVars, expVars, wsVars,
             busVars, apiVars, lifeVars>>

Null == "null"
None == <<>>
Some(x) == <<x>>
\* an empty Map
EmptyMap == [x \in {} |-> 0]

VehicleIds == {"v1", "v2"}
PoolIds == {"v1", "v2", "v3"}
VehicleTypes == {"dump_truck", "loader"}
\* the vehicle that receives telemetry while render ticks run (SpecMotion)
MotionIds == {"v1"}

(***************************************************************************)
(* TrailObjectPool                                                         *)
(***************************************************************************)

\* largest initialSize / maxSize option passed to the constructor
MaxOptSize == 3
\* largest positions.length passed to updateTrail
MaxTrailPts == 2

DefaultInitialSize == 20
DefaultMaxSize == 100

\* a pool slot; geometry tells whether the slot still has the dummy tube it
\* was created with, and the number of curve points of its tube
createPoolEntry(pool) ==
  Append(pool, [inUse |-> FALSE, id |-> Null,
                geometry |-> [dummy |-> TRUE, points |-> 2]])

RECURSIVE initializePool(_, _)
initializePool(pool, n) ==
  IF n = 0 THEN pool ELSE initializePool(createPoolEntry(pool), n - 1)

\* options.x || dflt : 0 and undefined are both falsy
OrDefault(opt, dflt) == IF opt = 0 THEN dflt ELSE opt

\* new TrailObjectPool({initialSize, maxSize})
PoolConstructor(optInitial, optMax) ==
  /\ initialSize = OrDefault(optInitial, DefaultInitialSize)
  /\ maxSize = OrDefault(optMax, DefaultMaxSize)
  /\ geometryPool = initializePool(<<>>, OrDefault(optInitial, DefaultInitialSize))
  /\ activeTrails = EmptyMap
  /\ poolCall = [op |-> "new", id |-> Null, ret |-> None]

\* geometryPool.find(e => !e.inUse): index of the first free slot, 0 if none
FindFree(pool) ==
  IF \E i \in DOMAIN pool : ~pool[i].inUse
  THEN CHOOSE i \in DOMAIN pool :
         /\ ~pool[i].inUse
         /\ \A j \in 1..(i - 1) : pool[j].inUse
  ELSE 0

InUseCount == Cardinality({i \in DOMAIN geometryPool : geometryPool[i].inUse})

\* activeTrails is a Map: a function whose domain is the set of keys
MapSet(m, k, v) == [x \in (DOMAIN m) \cup {k} |-> IF x = k THEN v ELSE m[x]]
MapDelete(m, k) == [x \in (DOMAIN m) \ {k} |-> m[x]]

acquire_noReuse(vehicleId, vehicleType) ==
  LET free == FindFree(geometryPool)
      grow == free = 0 /\ Len(geometryPool) < maxSize
      pool1 == IF grow THEN createPoolEntry(geometryPool) ELSE geometryPool
      entry == IF grow THEN Len(pool1) ELSE free
      trailData == [entry |-> entry, positions |-> 0,
                    vehicleType |-> vehicleType, visible |-> FALSE]
  IN IF entry = 0
     THEN /\ poolCall' = [op |-> "acquire", id |-> vehicleId, ret |-> None]
          /\ UNCHANGED <<initialSize, maxSize, geometryPool, activeTrails>>
     ELSE /\ geometryPool' = [pool1 EXCEPT ![entry].inUse = TRUE,
                                           ![entry].id = vehicleId]
          /\ activeTrails' = MapSet(activeTrails, vehicleId, trailData)
          /\ poolCall' = [op |-> "acquire", id |-> vehicleId,
                          ret |-> Some(trailData)]
          /\ UNCHANGED <<initialSize, maxSize>>

\* acquire(vehicleId, vehicleType); poolCall.ret is the value returned
acquire(vehicleId, vehicleType) ==
  IF vehicleId \in DOMAIN activeTrails
  THEN /\ poolCall' = [op |-> "acquire", id |-> vehicleId,
                       ret |-> Some(activeTrails[vehicleId])]
       /\ UNCHANGED <<initialSize, maxSize, geometryPool, activeTrails>>
  ELSE acquire_noReuse(vehicleId, vehicleType)

release_keepInUse(vehicleId) ==
  /\ poolCall' = [op |-> "release", id |-> vehicleId,
                  ret |-> IF vehicleId \in DOMAIN activeTrails
                          THEN Some([activeTrails[vehicleId]
                                       EXCEPT !.positions = 0])
                          ELSE None]
  /\ activeTrails' = MapDelete(activeTrails, vehicleId)
  /\ UNCHANGED <<initialSize, maxSize, geometryPool>>

\* release(vehicleId); poolCall.ret is the released trailData object as the
\* call leaves it (a caller may still hold the reference acquire returned)
release(vehicleId) ==
  IF vehicleId \notin DOMAIN activeTrails
  THEN /\ poolCall' = [op |-> "release", id |-> vehicleId, ret |-> None]
       /\ UNCHANGED <<initialSize, maxSize, geometryPool, activeTrails>>
  ELSE LET trailData == activeTrails[vehicleId]
       IN /\ geometryPool' = [geometryPool EXCEPT
                                ![trailData.entry].inUse = FALSE,
                                ![trailData.entry].id = Null]
          /\ activeTrails' = MapDelete(activeTrails, vehicleId)
          /\ poolCall' = [op |-> "release", id |-> vehicleId,
                          ret |-> Some([trailData EXCEPT !.positions = 0])]
          /\ UNCHANGED <<initialSize, maxSize>>

\* updateTrail(vehicleId, positions); positions is given by its length
updateTrail(vehicleId, positions) ==
  IF vehicleId \notin DOMAIN activeTrails \/ positions < 2
  THEN /\ poolCall' = [op |-> "updateTrail", id |-> vehicleId, ret |-> None]
       /\ UNCHANGED <<initialSize, maxSize, geometryPool, activeTrails>>
  ELSE LET trailData == activeTrails[vehicleId]
       IN /\ activeTrails' = [activeTrails EXCEPT
                                ![vehicleId].positions = positions,
                                ![vehicleId].visible = TRUE]
          /\ geometryPool' = [geometryPool EXCEPT
                                ![trailData.entry].geometry =
                                  [dummy |-> FALSE, points |-> positions]]
          /\ poolCall' = [op |-> "updateTrail", id |-> vehicleId,
                          ret |-> None]
          /\ UNCHANGED <<initialSize, maxSize>>

clearAll_keepEntries ==
  /\ activeTrails' = EmptyMap
  /\ poolCall' = [op |-> "clearAll", id |-> Null, ret |-> None]
  /\ UNCHANGED <<initialSize, maxSize, geometryPool>>

\* clearAll()
clearAll ==
  /\ geometryPool' =
       [i \in DOMAIN geometryPool |->
          IF \E id \in DOMAIN activeTrails : activeTrails[id].entry = i
          THEN [geometryPool[i] EXCEPT !.inUse = FALSE, !.id = Null]
          ELSE geometryPool[i]]
  /\ activeTrails' = EmptyMap
  /\ poolCall' = [op |-> "clearAll", id |-> Null, ret |-> None]
  /\ UNCHANGED <<initialSize, maxSize>>

\* the type each vehicle asks its trail for
PoolType(id) == IF id = "v2" THEN "loader" ELSE "dump_truck"

PoolAcquire ==
  /\ \E id \in PoolIds : acquire(id, PoolType(id))
  /\ UNCHANGED <<volVars, mgrVars, query, soloVars, expVars, wsVars, busVars, apiVars, lifeVars>>
PoolRelease ==
  /\ \E id \in PoolIds : release(id)
  /\ UNCHANGED <<volVars, mgrVars, query, soloVars, expVars, wsVars, busVars, apiVars, lifeVars>>
PoolUpdateTrail ==
  /\ \E id \in PoolIds, n \in 0..MaxTrailPts : updateTrail(id, n)
  /\ UNCHANGED <<volVars, mgrVars, query, soloVars, expVars, wsVars, busVars, apiVars, lifeVars>>
PoolClearAll ==
  /\ clearAll
  /\ UNCHANGED <<volVars, mgrVars, query, soloVars, expVars, wsVars, busVars, apiVars, lifeVars>>

\* the pool calls made for the trail of one vehicle (SpecMeshes)
MeshesAcquire ==
  /\ \E id \in MotionIds : acquire(id, PoolType(id))
  /\ UNCHANGED <<volVars, mgrVars, query, soloVars, expVars, wsVars, busVars, apiVars, lifeVars>>
MeshesRelease ==
  /\ \E id \in MotionIds : release(id)
  /\ UNCHANGED <<volVars, mgrVars, query, soloVars, expVars, wsVars, busVars, apiVars, lifeVars>>
MeshesUpdateTrail ==
  /\ \E id \in MotionIds, n \in 0..MaxTrailPts : updateTrail(id, n)
  /\ UNCHANGED <<volVars, mgrVars, query, soloVars, expVars, wsVars, busVars, apiVars, lifeVars>>

(***************************************************************************)
(* DrivableVolume                                                          *)
(***************************************************************************)

\* computeInnerBounds: margin = 0.5 world units = 1 half unit
Margin == 1
\* isInsideTunnel: ceiling within 20 and floor within 5 world units
CeilingReach == 40
FloorReach == 10

Vec(x, y, z) == <<x, y, z>>
Box(min, max) == [min |-> min, max |-> max]

\* THREE.Box3.containsPoint
containsPoint(box, p) ==
  \A i \in 1..3 : box.min[i] <= p[i] /\ p[i] <= box.max[i]

\* The loaded mine model: a tunnel-shaped mesh set with this bounding box
MineModel == [box |-> Box(Vec(0, 0, 0), Vec(64, 16, 64)), meshes |-> 2]
\* The dedicated simplified volume mesh of loadVolumeMesh
VolumeMeshModel == [box |-> Box(Vec(8, 0, 8), Vec(56, 16, 56)), meshes |-> 1]

\* new DrivableVolume()
VolumeConstructor ==
  /\ volume = [mineModelRef |-> None, mineMeshes |-> None,
               boundingBox |-> None, innerBounds |-> None, isReady |-> FALSE]
  /\ volumeCall = "new"

\* computeInnerBounds() applied to a volume object
computeInnerBounds(vol) ==
  IF vol.boundingBox = None THEN vol
  ELSE LET b == vol.boundingBox[1]
       IN [vol EXCEPT !.innerBounds =
             Some(Box([i \in 1..3 |-> b.min[i] + Margin],
                      [i \in 1..3 |-> b.max[i] - Margin]))]

\* generateFromMineModel(mineModel); mineModel is None or Some(model)
generateFromMineModel(mineModel) ==
  /\ volume' =
       IF mineModel = None THEN volume
       ELSE [computeInnerBounds(
               [volume EXCEPT !.mineModelRef = mineModel,
                              !.mineMeshes = mineModel,
                              !.boundingBox = Some(mineModel[1].box)])
             EXCEPT !.isReady = TRUE]
  /\ volumeCall' = IF mineModel = None THEN "generateNoModel" ELSE "generate"

\* loadVolumeMesh(volumePath): the state change made once the awaited load
\* has settled; ok = FALSE is a rejected load, caught and logged
loadVolumeMesh(ok) ==
  /\ volume' =
       IF ~ok THEN volume
       ELSE [computeInnerBounds(
               [volume EXCEPT !.mineModelRef = Some(VolumeMeshModel),
                              !.boundingBox = Some(VolumeMeshModel.box)])
             EXCEPT !.isReady = TRUE]
  /\ volumeCall' = IF ok THEN "load" ELSE "loadFailed"

\* DrivableVolume.dispose()
volumeDispose ==
  /\ volume' = [mineModelRef |-> None, mineMeshes |-> None,
                boundingBox |-> None, innerBounds |-> None, isReady |-> FALSE]
  /\ volumeCall' = "dispose"

isPointInside_failClosed(point) ==
  /\ volume.isReady
  /\ volume.boundingBox # None
  /\ containsPoint(IF volume.innerBounds # None THEN volume.innerBounds[1]
                   ELSE volume.boundingBox[1], point)

\* isPointInside(point)
isPointInside(point) ==
  IF ~volume.isReady \/ volume.boundingBox = None
  THEN TRUE
  ELSE containsPoint(IF volume.innerBounds # None THEN volume.innerBounds[1]
                     ELSE volume.boundingBox[1], point)

\* Raycaster.intersectObjects(mineMeshes) from point along +Y / -Y: distance
\* of the nearest hit on the tunnel shell, None when the ray misses it.  The
\* shell of the mine model is its box: ceiling at max.y, floor at min.y.
CeilingHit(model, p) ==
  IF model.box.min[1] <= p[1] /\ p[1] <= model.box.max[1]
     /\ model.box.min[3] <= p[3] /\ p[3] <= model.box.max[3]
     /\ p[2] <= model.box.max[2]
  THEN Some(IF p[2] >= model.box.min[2] THEN model.box.max[2] - p[2]
            ELSE model.box.min[2] - p[2])
  ELSE None
FloorHit(model, p) ==
  IF model.box.min[1] <= p[1] /\ p[1] <= model.box.max[1]
     /\ model.box.min[3] <= p[3] /\ p[3] <= model.box.max[3]
     /\ p[2] >= model.box.min[2]
  THEN Some(IF p[2] <= model.box.max[2] THEN p[2] - model.box.min[2]
            ELSE p[2] - model.box.max[2])
  ELSE None

\* isInsideTunnel(point); mineMeshes.length === 0 is mineMeshes = None
isInsideTunnel(point) ==
  IF ~volume.isReady \/ volume.mineMeshes = None
  THEN TRUE
  ELSE LET ceilingHits == CeilingHit(volume.mineMeshes[1], point)
           floorHits == FloorHit(volume.mineMeshes[1], point)
           hasCeiling == ceilingHits # None /\ ceilingHits[1] < CeilingReach
           hasFloor == floorHits # None /\ floorHits[1] < FloorReach
       IN hasCeiling /\ hasFloor

\* checkCollision(fromPos, toPos)
checkCollision(fromPos, toPos) == [position |-> toPos, blocked |-> FALSE]

VolumeGenerate ==
  /\ \E m \in {None, Some(MineModel)} : generateFromMineModel(m)
  /\ UNCHANGED <<poolVars, mgrVars, query, soloVars, expVars, wsVars, busVars, apiVars, lifeVars>>
VolumeLoad ==
  /\ \E ok \in BOOLEAN : loadVolumeMesh(ok)
  /\ UNCHANGED <<poolVars, mgrVars, query, soloVars, expVars, wsVars, busVars, apiVars, lifeVars>>
VolumeDispose ==
  /\ volumeDispose
  /\ UNCHANGED <<poolVars, mgrVars, query, soloVars, expVars, wsVars, busVars, apiVars, lifeVars>>

(***************************************************************************)
(* Vehicle                                                                 *)
(***************************************************************************)

\* largest deltaTime of a render tick, in units of ln(2) seconds, so that
\* Math.exp(-k * deltaTime) is exactly 2^(-k * deltaTime)
MaxDt == 3

\* config.interpolationSpeed || 5.0 and config.rotationSpeed || 3.0
PositionLerpSpeed == 5
RotationLerpSpeed == 3

Origin == Vec(0, 0, 0)

RECURSIVE Pow2(_)
Pow2(n) == IF n = 0 THEN 1 ELSE 2 * Pow2(n - 1)

\* Numbers are binary floating point scaled down: a significand of
\* FloatBits bits (53 in an IEEE double) over the unit grid, so the
\* representable values are m * 2^e with |m| < 2^FloatBits and e >= 0.
FloatBits == 10

Abs(n) == IF n < 0 THEN 0 - n ELSE n

\* n / d (n >= 0, d > 0) rounded to the nearest integer, ties to even
RoundHalfEven(n, d) ==
  LET q == n \div d
      r == n % d
  IN IF 2 * r < d THEN q
     ELSE IF 2 * r > d THEN q + 1
     ELSE IF q % 2 = 0 THEN q ELSE q + 1

\* the exponent of the binade n / d falls in
RECURSIVE Binade(_, _, _)
Binade(n, d, e) ==
  IF n < Pow2(FloatBits) * Pow2(e) * d THEN e ELSE Binade(n, d, e + 1)

\* n / d (d > 0) rounded to the nearest representable number
Round(n, d) ==
  LET e == Binade(Abs(n), d, 0)
      m == RoundHalfEven(Abs(n), d * Pow2(e)) * Pow2(e)
  IN IF n >= 0 THEN m ELSE 0 - m

\* the representable numbers among those of a set
Representable(S) == {x \in S : Round(x, 1) = x}

LerpFactor_linear(speed, deltaTime) ==
  [num |-> IF deltaTime < 4 THEN deltaTime ELSE 4, den |-> 4]

\* 1 - Math.exp(-speed * deltaTime), as the fraction num / den: 1 - 2^(-n)
\* has n significant bits and rounds to 1 when n exceeds the significand
LerpFactor(speed, deltaTime) ==
  IF speed * deltaTime > FloatBits
  THEN [num |-> 1, den |-> 1]
  ELSE [num |-> Pow2(speed * deltaTime) - 1, den |-> Pow2(speed * deltaTime)]

\* NaN, which is also what undefined becomes in arithmetic, is written as
\* a number far outside the values of the model; an operation on NaN
\* yields NaN
NaN == 0 - Pow2(30)
IsNaN(x) == x = NaN

\* x += (end - x) * alpha, every operation rounded
Lerp1(start, end, f) ==
  IF IsNaN(start) \/ IsNaN(end) THEN NaN
  ELSE Round(start + Round(Round(end - start, 1) * f.num, f.den), 1)
\* THREE.Vector3.lerp
VecLerp(a, b, f) == [i \in 1..3 |-> Lerp1(a[i], b[i], f)]

\* Materials of the preloaded models (vehicleModels.get(type)): the dump
\* truck's GLTF material, and the placeholder built for the loader
ModelMaterial(type) ==
  IF type = "loader"
  THEN [emissive |-> "0x00ff66", emissiveIntensity |-> 10]
  ELSE [emissive |-> "0x000000", emissiveIntensity |-> 10]

\* isPositionValid(position) of vehicle v
isPositionValid(v, position) ==
  IF ~v.drivableVolume THEN TRUE ELSE isPointInside(position)

\* setPosition(position)
setPosition(v, position) ==
  LET v1 == [v EXCEPT !.currentPosition = position,
                      !.targetPosition = position,
                      !.meshPosition = position]
  IN IF isPositionValid(v1, position)
     THEN [v1 EXCEPT !.lastValidPosition = position,
                     !.hasValidPosition = TRUE]
     ELSE v1

setTargetPosition_strict(v, position) ==
  IF isPositionValid(v, position)
  THEN [v EXCEPT !.targetPosition = position, !.hasValidPosition = TRUE]
  ELSE v

\* setTargetPosition(position)
setTargetPosition(v, position) ==
  [v EXCEPT !.targetPosition = position, !.hasValidPosition = TRUE]

\* setHeading(heading): rotation.y = degToRad(heading) + Math.PI
setHeading(v, heading) ==
  [v EXCEPT !.currentHeading = heading,
            !.targetHeading = heading,
            !.meshRotationY = Round(heading + 180, 1)]

setTargetHeading_snap(v, heading) == setHeading(v, heading)

\* setTargetHeading / setSpeed / setStatus
setTargetHeading(v, heading) == [v EXCEPT !.targetHeading = heading]
setSpeed_ignore(v, speed) == v
setSpeed(v, speed) == [v EXCEPT !.speed = speed]
setStatus(v, status) == [v EXCEPT !.status = status]

\* options.maxTrailLength || 150, and trailUpdateInterval
DefaultMaxTrailLength == 150
TrailUpdateInterval == 2

\* new Vehicle(options); the mesh materials are those cloned from the model.
\* trailMesh and trailMaterial tell whether the reference is non-null, and
\* trailInScene whether a trail mesh of this vehicle is among the children
\* of trailScene.  meshVisible is mesh.visible (true for a cloned model).
VehicleConstructor(options) ==
  setHeading(
    setPosition(
      [type |-> options.type,
       currentPosition |-> Origin, targetPosition |-> Origin,
       meshPosition |-> Origin,
       currentHeading |-> 0, targetHeading |-> 0, meshRotationY |-> 0,
       speed |-> options.speed, status |-> options.status,
       drivableVolume |-> options.drivableVolume,
       lastValidPosition |-> Origin, hasValidPosition |-> FALSE,
       trailEnabled |-> FALSE, trailPositions |-> <<>>,
       maxTrailLength |-> OrDefault(options.maxTrailLength,
                                    DefaultMaxTrailLength),
       trailMesh |-> FALSE, trailInScene |-> FALSE,
       trailMaterial |-> FALSE, trailUpdateCounter |-> 0,
       isSelected |-> FALSE, meshVisible |-> TRUE,
       material |-> ModelMaterial(options.type),
       tripHistory |-> None],
      options.initialPosition),
    options.initialHeading)

interpolatePosition_overshoot(v, deltaTime) ==
  LET pos == VecLerp(v.currentPosition, v.targetPosition,
                     [num |-> 3 * deltaTime, den |-> 2])
  IN [v EXCEPT !.currentPosition = pos, !.meshPosition = pos]

\* interpolatePosition(deltaTime)
interpolatePosition(v, deltaTime) ==
  LET pos == VecLerp(v.currentPosition, v.targetPosition,
                     LerpFactor(PositionLerpSpeed, deltaTime))
  IN [v EXCEPT !.currentPosition = pos, !.meshPosition = pos]

\* while (diff > PI) diff -= 2 PI; while (diff < -PI) diff += 2 PI
RECURSIVE NormalizeDiff(_)
NormalizeDiff(diff) ==
  IF diff > 180 THEN NormalizeDiff(Round(diff - 360, 1))
  ELSE IF diff < -180 THEN NormalizeDiff(Round(diff + 360, 1))
  ELSE diff

\* interpolateRotation(deltaTime)
interpolateRotation(v, deltaTime) ==
  LET targetRotation == v.targetHeading
      currentRotation == v.meshRotationY
      diff == NormalizeDiff(Round(targetRotation - currentRotation, 1))
      f == LerpFactor(RotationLerpSpeed, deltaTime)
      rot == Round(currentRotation + Round(diff * f.num, f.den), 1)
  IN IF IsNaN(targetRotation) \/ IsNaN(currentRotation)
     THEN [v EXCEPT !.meshRotationY = NaN, !.currentHeading = NaN]
     ELSE [v EXCEPT !.meshRotationY = rot, !.currentHeading = 0 - rot]

\* enableTrail(scene)
enableTrail(v) ==
  IF v.trailEnabled THEN v
  ELSE [v EXCEPT !.trailEnabled = TRUE, !.trailPositions = <<>>,
                 !.trailMaterial = TRUE, !.trailMesh = FALSE]

\* disposeTrail(); trailScene is set whenever a trail mesh exists
disposeTrail(v) ==
  [v EXCEPT !.trailInScene = IF v.trailMesh THEN FALSE ELSE @,
            !.trailMesh = FALSE, !.trailMaterial = FALSE,
            !.trailPositions = <<>>]

\* disableTrail()
disableTrail(v) ==
  IF ~v.trailEnabled THEN v
  ELSE disposeTrail([v EXCEPT !.trailEnabled = FALSE])

clearTrail_keepMesh(v) == [v EXCEPT !.trailPositions = <<>>]

\* clearTrail()
clearTrail(v) ==
  [v EXCEPT !.trailPositions = <<>>,
            !.trailInScene = IF v.trailMesh THEN FALSE ELSE @,
            !.trailMesh = FALSE]

vehicleUpdateTrail_unbounded(v) ==
  IF ~v.trailEnabled \/ ~v.trailMaterial THEN v
  ELSE IF Len(v.trailPositions) > v.maxTrailLength THEN v
  ELSE [v EXCEPT !.trailPositions = Append(@, v.currentPosition)]

\* Vehicle.updateTrail(); a trail point is recorded as the currentPosition it was
\* taken at (the code lifts every point by the same 0.3), and two points of
\* the grid are closer than 0.2 only when they are equal
vehicleUpdateTrail(v) ==
  IF ~v.trailEnabled \/ ~v.trailMaterial THEN v
  ELSE IF v.trailUpdateCounter + 1 < TrailUpdateInterval
  THEN [v EXCEPT !.trailUpdateCounter = @ + 1]
  ELSE LET v1 == [v EXCEPT !.trailUpdateCounter = 0]
           pos == v.currentPosition
       IN IF Len(v.trailPositions) > 0
             /\ v.trailPositions[Len(v.trailPositions)] = pos
          THEN v1
          ELSE LET pushed == Append(v.trailPositions, pos)
                   kept == IF Len(pushed) > v.maxTrailLength
                           THEN Tail(pushed) ELSE pushed
                   v2 == [v1 EXCEPT !.trailPositions = kept]
               IN IF Len(kept) < 2 THEN v2
                  ELSE [v2 EXCEPT !.trailMesh = TRUE, !.trailInScene = TRUE]

\* Vehicle.update(deltaTime)
vehicleUpdate(v, deltaTime) ==
  vehicleUpdateTrail(
    interpolateRotation(interpolatePosition(v, deltaTime), deltaTime))

dispose_keepTrail(v) == v

\* Vehicle.dispose(): the mesh's geometries and materials, then the trail
dispose(v) == disposeTrail(v)

\* setSelected(selected)
setSelected(v, selected) ==
  [v EXCEPT !.isSelected = selected,
            !.material = IF selected
                         THEN [emissive |-> "0x00aaff", emissiveIntensity |-> 3]
                         ELSE [emissive |-> "0x000000", emissiveIntensity |-> 0]]

(***************************************************************************)
(* VehicleManager                                                          *)
(* The methods are functions of the manager object m =                     *)
(* [vehicles, selectedVehicleId, drivableVolume, trailsEnabled, scene,     *)
(* emitted, threw]; emitted is the list of events the call has emitted so  *)
(* far and threw tells that it ended in an exception.  scene is the set of *)
(* the vehicle meshes and trail meshes among the children of the scene.    *)
(***************************************************************************)

\* the names of a vehicle's mesh and of its trail mesh in the scene
MeshOf(id) == <<"mesh", id>>
TrailOf(id) == <<"trail", id>>

\* the scene after the trail methods of vehicle id left it as v (they add
\* and remove the trail mesh themselves, through trailScene)
SceneSync(sc, id, v) ==
  IF v.trailInScene THEN sc \cup {TrailOf(id)} ELSE sc \ {TrailOf(id)}

\* position samples: inside the inner bounds, inside at another place, and
\* outside the mine's bounding box
PInside == Vec(32, 8, 32)
PInside2 == Vec(32, 8, 48)
POutside == Vec(96, 8, 32)

\* The telemetry records delivered to updateVehicle (id is passed beside
\* the record); tripEvents is None when the field is absent
TelemetryRecords ==
  { [type |-> "dump_truck", position |-> PInside, heading |-> 0,
     speed |-> 0, status |-> "idle", tripEvents |-> None],
    [type |-> "loader", position |-> PInside2, heading |-> 90,
     speed |-> 5, status |-> "moving", tripEvents |-> Some(<<"load">>)],
    [type |-> "dump_truck", position |-> POutside, heading |-> 350,
     speed |-> 5, status |-> "moving", tripEvents |-> None] }

Emit(m, event) == [m EXCEPT !.emitted = Append(@, event)]

createVehicle_interpolated(m, id, data) ==
  LET vehicle == setTargetHeading(
                   setTargetPosition(
                     VehicleConstructor(
                       [type |-> data.type,
                        initialPosition |-> Origin,
                        initialHeading |-> 0,
                        speed |-> data.speed, status |-> data.status,
                        maxTrailLength |-> 0,
                        drivableVolume |-> m.drivableVolume]),
                     data.position),
                   data.heading)
  IN [m EXCEPT !.vehicles = MapSet(@, id, vehicle),
               !.scene = @ \cup {MeshOf(id)}]

\* createVehicle(data)
createVehicle(m, id, data) ==
  LET vehicle == VehicleConstructor(
                   [type |-> data.type,
                    initialPosition |-> data.position,
                    initialHeading |-> data.heading,
                    speed |-> data.speed, status |-> data.status,
                    maxTrailLength |-> 0,
                    drivableVolume |-> m.drivableVolume])
      v1 == IF m.trailsEnabled THEN enableTrail(vehicle) ELSE vehicle
  IN [m EXCEPT !.vehicles = MapSet(@, id, v1),
               !.scene = @ \cup {MeshOf(id)}]

\* the tripEvents branch of updateVehicle for a known vehicle: reading
\* vehicle.tripHistory.length throws when tripHistory is undefined
SyncTripEvents(m, id, tripEvents) ==
  IF tripEvents = None THEN m
  ELSE IF m.vehicles[id].tripHistory = None THEN [m EXCEPT !.threw = TRUE]
  ELSE LET hist == m.vehicles[id].tripHistory[1]
           evs == tripEvents[1]
       IN IF Len(evs) > Len(hist)
          THEN [m EXCEPT !.vehicles[id].tripHistory =
                  Some(hist \o SubSeq(evs, Len(hist) + 1, Len(evs)))]
          ELSE m

updateVehicle_recreate(m, id, data) ==
  LET m2 == Emit(createVehicle(m, id, data), "vehicles:count")
  IN IF id = m2.selectedVehicleId THEN Emit(m2, "vehicle:selected") ELSE m2

\* updateVehicle(data)
updateVehicle(m, id, data) ==
  LET m1 == IF id \in DOMAIN m.vehicles
            THEN SyncTripEvents(
                   [m EXCEPT !.vehicles[id] =
                      setStatus(
                        setSpeed(
                          setTargetHeading(
                            setTargetPosition(@, data.position),
                            data.heading),
                          data.speed),
                        data.status)],
                   id, data.tripEvents)
            ELSE createVehicle(m, id, data)
  IN CHOOSE left \in
       {IF m2.threw THEN m2
        ELSE IF id = m2.selectedVehicleId
        THEN Emit(Emit(m2, "vehicles:count"), "vehicle:selected")
        ELSE Emit(m2, "vehicles:count") :
          m2 \in {m1}} : TRUE

\* deselectVehicle()
deselectVehicle(m) ==
  IF m.selectedVehicleId # Null
  THEN LET sel == m.selectedVehicleId
           m1 == IF sel \in DOMAIN m.vehicles
                 THEN [m EXCEPT !.vehicles[sel] = setSelected(@, FALSE)]
                 ELSE m
       IN Emit([m1 EXCEPT !.selectedVehicleId = Null], "vehicle:deselected")
  ELSE m

\* removeVehicle(id)
removeVehicle(m, id) ==
  IF id \in DOMAIN m.vehicles
  THEN LET disposed == dispose(m.vehicles[id])
           m1 == Emit([m EXCEPT !.scene = SceneSync(@ \ {MeshOf(id)}, id,
                                                    disposed),
                                !.vehicles = MapDelete(@, id)],
                      "vehicles:count")
       IN IF id = m1.selectedVehicleId THEN deselectVehicle(m1) ELSE m1
  ELSE m

\* vehicles.forEach(...): the manager once a Vehicle method has left the
\* vehicles as vs, and the scene after it
ForEachVehicle(m, vs) ==
  [m EXCEPT !.vehicles = vs,
               !.scene = (@ \ {TrailOf(id) : id \in DOMAIN vs})
                           \cup {TrailOf(id) : id \in
                                   {i \in DOMAIN vs : vs[i].trailInScene}}]

\* update(deltaTime)
update(m, deltaTime) ==
  ForEachVehicle(m, [id \in DOMAIN m.vehicles |->
                       vehicleUpdate(m.vehicles[id], deltaTime)])

\* enableAllTrails() / disableAllTrails() / toggleTrails() / clearAllTrails()
enableAllTrails(m) ==
  ForEachVehicle([m EXCEPT !.trailsEnabled = TRUE],
                 [id \in DOMAIN m.vehicles |-> enableTrail(m.vehicles[id])])
disableAllTrails(m) ==
  ForEachVehicle([m EXCEPT !.trailsEnabled = FALSE],
                 [id \in DOMAIN m.vehicles |-> disableTrail(m.vehicles[id])])
toggleTrails(m) ==
  IF m.trailsEnabled THEN disableAllTrails(m) ELSE enableAllTrails(m)
clearAllTrails(m) ==
  ForEachVehicle(m, [id \in DOMAIN m.vehicles |-> clearTrail(m.vehicles[id])])

selectVehicle_keepPrevious(m, id) ==
  IF id \in DOMAIN m.vehicles
  THEN Emit([m EXCEPT !.vehicles[id] = setSelected(@, TRUE),
                      !.selectedVehicleId = id],
            "vehicle:selected")
  ELSE m

\* selectVehicle(id)
selectVehicle(m, id) ==
  LET prev == m.selectedVehicleId
      m1 == IF prev # Null /\ prev # id /\ prev \in DOMAIN m.vehicles
            THEN [m EXCEPT !.vehicles[prev] = setSelected(@, FALSE)]
            ELSE m
  IN IF id \in DOMAIN m1.vehicles
     THEN Emit([m1 EXCEPT !.vehicles[id] = setSelected(@, TRUE),
                          !.selectedVehicleId = id],
               "vehicle:selected")
     ELSE m1

\* setDrivableVolume(volume); vol = FALSE passes null
setDrivableVolume(m, vol) ==
  [m EXCEPT !.drivableVolume = vol,
            !.vehicles = [id \in DOMAIN m.vehicles |->
                            [m.vehicles[id] EXCEPT !.drivableVolume = vol]]]

\* new VehicleManager(options)
ManagerConstructor ==
  /\ vehicles = EmptyMap
  /\ selectedVehicleId = Null
  /\ managerVolume = FALSE
  /\ trailsEnabled = FALSE
  /\ scene = {}
  /\ mgrCall = [op |-> "new", id |-> Null, data |-> None,
                known |-> FALSE, selectedBefore |-> Null,
                emitted |-> <<>>, threw |-> FALSE]

\* the manager object at the start of a call
Manager ==
  [vehicles |-> vehicles, selectedVehicleId |-> selectedVehicleId,
   drivableVolume |-> managerVolume, trailsEnabled |-> trailsEnabled,
   scene |-> scene, emitted |-> <<>>, threw |-> FALSE]

\* a call op(id, data) that leaves the manager as m; mgrCall records the
\* call, whether id was registered and which id was selected when it began,
\* the events it emitted and whether it threw
Call(op, id, data, m) ==
  /\ UNCHANGED <<poolVars, volVars, query, soloVars, expVars, wsVars, busVars, apiVars, lifeVars>>
  /\ vehicles' = m.vehicles
  /\ selectedVehicleId' = m.selectedVehicleId
  /\ managerVolume' = m.drivableVolume
  /\ trailsEnabled' = m.trailsEnabled
  /\ scene' = m.scene
  /\ mgrCall' = [op |-> op, id |-> id, data |-> data,
                 known |-> id \in DOMAIN vehicles,
                 selectedBefore |-> selectedVehicleId,
                 emitted |-> m.emitted, threw |-> m.threw]

\* telemetry and removal for the vehicles named by ids
TelemetryFor(ids) ==
  \E id \in ids, data \in TelemetryRecords :
    Call("updateVehicle", id, Some(data), updateVehicle(Manager, id, data))
RemovalOf(ids) ==
  \E id \in ids : Call("removeVehicle", id, None, removeVehicle(Manager, id))

UpdateVehicle == TelemetryFor(VehicleIds)
RemoveVehicle == RemovalOf(VehicleIds)
MotionUpdateVehicle == TelemetryFor(MotionIds)
MotionRemoveVehicle == RemovalOf(MotionIds)
SelectVehicle ==
  \E id \in VehicleIds : Call("selectVehicle", id, None, selectVehicle(Manager, id))
DeselectVehicle == Call("deselectVehicle", Null, None, deselectVehicle(Manager))
Update ==
  \E dt \in 0..MaxDt : Call("update", Null, None, update(Manager, dt))
SetDrivableVolume ==
  Call("setDrivableVolume", Null, None, setDrivableVolume(Manager, TRUE))
ToggleTrails == Call("toggleTrails", Null, None, toggleTrails(Manager))
ClearAllTrails == Call("clearAllTrails", Null, None, clearAllTrails(Manager))

\* malformed telemetry (SpecMalformed): a record whose position lacks its y
\* coordinate and a record without heading, delivered for a registered
\* vehicle between the well-formed records that have no trip events
MalformedRecords ==
  { [type |-> "dump_truck", position |-> Vec(32, NaN, 48), heading |-> 0,
     speed |-> 5, status |-> "moving", tripEvents |-> None],
    [type |-> "dump_truck", position |-> PInside2, heading |-> NaN,
     speed |-> 5, status |-> "moving", tripEvents |-> None] }
WellFormedUpdateVehicle ==
  \E id \in MotionIds :
    \E data \in {r \in TelemetryRecords : r.tripEvents = None} :
      Call("updateVehicle", id, Some(data), updateVehicle(Manager, id, data))
MalformedUpdateVehicle ==
  \E id \in MotionIds \cap DOMAIN vehicles, data \in MalformedRecords :
    Call("updateVehicle", id, Some(data), updateVehicle(Manager, id, data))

\* telemetry, ticks and removal while trails are recorded (SpecTrail): the
\* records without trip events, of which the vehicles outside MotionIds
\* receive those of a vehicle at rest, and ticks of ln 2 s while the trails
\* are switched on and every trail is within MaxTrailPts points
TrailRecords(id) ==
  {data \in TelemetryRecords :
     data.tripEvents = None /\ (id \in MotionIds \/ data.speed = 0)}
TrailUpdateVehicle ==
  \E id \in VehicleIds : \E data \in TrailRecords(id) :
    Call("updateVehicle", id, Some(data), updateVehicle(Manager, id, data))
TrailTick ==
  /\ trailsEnabled
  /\ \A id \in DOMAIN vehicles : Len(vehicles[id].trailPositions) <= MaxTrailPts
  /\ Call("update", Null, None, update(Manager, 1))

(***************************************************************************)
(* Experience: the handlers of the UI and data events.  A handler works on *)
(* app = [m, e]: the VehicleManager m (as above) and the Experience e with  *)
(* vehicleFilters, selectedLevel, followMode, fpvMode, controlsEnabled     *)
(* (camera.controls.enabled), followedVehicle (apiService), and of the     *)
(* UIController vehicleData (id -> last record), fpvOverlay and the counts *)
(* last handed to updateVehicleCount / updateFilterCounts /                *)
(* updateLevelCounts (None before the first).                             *)
(***************************************************************************)

TypeKeys == {"dump_truck", "loader", "haul_truck"}
StatusKeys == {"moving", "idle", "loading", "maintenance"}
GroupKeys == {"hauling", "loading", "transport"}
LevelKeys == {"0", "1", "2", "3"}

\* the filter state of the constructor and of 'vehicles:filter:reset'
AllEnabled ==
  [types |-> [t \in TypeKeys |-> TRUE],
   status |-> [s \in StatusKeys |-> TRUE],
   groups |-> [g \in GroupKeys |-> TRUE]]

\* map[key] as a condition: undefined (no such key) is falsy
Truthy(map, key) == key \in DOMAIN map /\ map[key]

\* parseInt(level) for the level strings of the UI
ParseInt(level) ==
  CASE level = "0" -> 0 [] level = "1" -> 1
    [] level = "2" -> 2 [] level = "3" -> 3

\* String(level) as the key of levelCounts
LevelKey(level) ==
  CASE level = 0 -> "0" [] level = 1 -> "1"
    [] level = 2 -> "2" [] level = 3 -> "3" [] OTHER -> "other"

ExperienceConstructor ==
  /\ experience =
       [vehicleFilters |-> AllEnabled, selectedLevel |-> "all",
        followMode |-> [active |-> FALSE, vehicleId |-> Null],
        fpvMode |-> [active |-> FALSE, vehicleId |-> Null],
        controlsEnabled |-> TRUE, followedVehicle |-> Null,
        vehicleData |-> EmptyMap, fpvOverlay |-> Null,
        isFollowingVehicle |-> FALSE, followedVehicleId |-> Null,
        isFPVActive |-> FALSE, fpvVehicleId |-> Null,
        vehicleCount |-> None, typeCounts |-> None, levelCounts |-> None]
  /\ expCall = [op |-> "new", id |-> Null, arg |-> None, registered |-> {}]

\* the application at the start of a handler
App == [m |-> Manager, e |-> experience]

\* the vehicles of the registry that have a record in ui.vehicleData
Listed(app) == DOMAIN app.m.vehicles \cap DOMAIN app.e.vehicleData

\* updateVehicleCounts()
updateVehicleCounts(app) ==
  LET data == app.e.vehicleData
      typeCounts == [t \in TypeKeys |->
                       Cardinality({id \in Listed(app) : data[id].type = t})]
      levelCounts == [k \in LevelKeys \cup {"all"} |->
                        IF k = "all" THEN Cardinality(Listed(app))
                        ELSE Cardinality({id \in Listed(app) :
                                            LevelKey(data[id].level) = k})]
  IN [app EXCEPT !.e.typeCounts = Some(typeCounts),
                 !.e.levelCounts = Some(levelCounts)]

\* vehicles.forEach: mesh.visible = visible[id] for every vehicle with a
\* record in ui.vehicleData (the others are skipped)
SetVisible(app, visible) ==
  [app EXCEPT !.m.vehicles =
     [id \in DOMAIN app.m.vehicles |->
        IF id \in DOMAIN app.e.vehicleData
        THEN [app.m.vehicles[id] EXCEPT !.meshVisible = visible[id]]
        ELSE app.m.vehicles[id]]]

\* applyVehicleFilters()
applyVehicleFilters(app) ==
  LET f == app.e.vehicleFilters
      data == app.e.vehicleData
  IN updateVehicleCounts(
       SetVisible(app,
         [id \in Listed(app) |->
            /\ Truthy(f.types, data[id].type)
            /\ Truthy(f.status, data[id].status)
            /\ data[id].group = Null \/ Truthy(f.groups, data[id].group)]))

\* applyLevelFilter()
applyLevelFilter(app) ==
  IF app.e.selectedLevel = "all"
  THEN applyVehicleFilters(app)
  ELSE LET levelNum == ParseInt(app.e.selectedLevel)
       IN updateVehicleCounts(
            SetVisible(app, [id \in Listed(app) |->
                               app.e.vehicleData[id].level = levelNum]))

\* the listeners of 'vehicles:filter', 'vehicles:filter:reset' and
\* 'level:select'
onVehiclesFilter(app, filterState) ==
  applyVehicleFilters([app EXCEPT !.e.vehicleFilters = filterState])
onVehiclesFilterReset(app) ==
  applyVehicleFilters([app EXCEPT !.e.vehicleFilters = AllEnabled])
onLevelSelect(app, level) ==
  applyLevelFilter([app EXCEPT !.e.selectedLevel = level])

\* the listener of 'vehicles:count'
onVehiclesCount(app) ==
  [app EXCEPT !.e.vehicleCount = Some(Cardinality(DOMAIN app.m.vehicles))]

\* stopFollowMode()
stopFollowMode(app) ==
  IF ~app.e.followMode.active THEN app
  ELSE [app EXCEPT !.e.followMode = [active |-> FALSE, vehicleId |-> Null],
                   !.e.controlsEnabled = TRUE,
                   !.e.followedVehicle = Null]

\* startFollowMode(vehicleId)
startFollowMode(app, vehicleId) ==
  IF vehicleId \notin DOMAIN app.m.vehicles THEN app
  ELSE [app EXCEPT !.e.followMode = [active |-> TRUE, vehicleId |-> vehicleId],
                   !.e.controlsEnabled = FALSE,
                   !.e.followedVehicle = vehicleId]

stopFPVMode_always(app) ==
  [app EXCEPT !.e.fpvMode = [active |-> FALSE, vehicleId |-> Null],
              !.e.controlsEnabled = TRUE,
              !.e.fpvOverlay = Null]

\* stopFPVMode()
stopFPVMode(app) ==
  IF ~app.e.fpvMode.active THEN app
  ELSE [app EXCEPT !.e.fpvMode = [active |-> FALSE, vehicleId |-> Null],
                   !.e.controlsEnabled = TRUE,
                   !.e.fpvOverlay = Null]

\* startFPVMode(vehicleId)
startFPVMode(app, vehicleId) ==
  IF vehicleId \notin DOMAIN app.m.vehicles THEN app
  ELSE [stopFollowMode(app) EXCEPT
          !.e.fpvMode = [active |-> TRUE, vehicleId |-> vehicleId],
          !.e.controlsEnabled = FALSE,
          !.e.fpvOverlay = vehicleId]

\* UIController.setFollowedVehicle(vehicleId): while the UI is following,
\* 'vehicle:follow:start' is emitted for the new vehicle
uiSetFollowedVehicle(app, vehicleId) ==
  IF app.e.isFollowingVehicle
  THEN startFollowMode([app EXCEPT !.e.followedVehicleId = vehicleId],
                       vehicleId)
  ELSE [app EXCEPT !.e.followedVehicleId = vehicleId]

\* UIController.showVehicleInfo(data), the listener of 'vehicle:selected'
showVehicleInfo(app, id) == uiSetFollowedVehicle(app, id)

\* UIController.startFollowMode() / stopFollowMode() / toggleFollowMode(),
\* with the listeners of 'vehicle:follow:start' and 'vehicle:follow:stop'
uiStartFollowMode(app) ==
  IF app.e.followedVehicleId = Null THEN app
  ELSE startFollowMode([app EXCEPT !.e.isFollowingVehicle = TRUE],
                       app.e.followedVehicleId)
uiStopFollowMode(app) ==
  stopFollowMode([app EXCEPT !.e.isFollowingVehicle = FALSE])
toggleFollowMode(app) ==
  IF app.e.isFollowingVehicle THEN uiStopFollowMode(app)
  ELSE uiStartFollowMode(app)

\* UIController.startFPVMode() / stopFPVMode(), with the listeners of
\* 'fpv:start' and 'fpv:stop'
uiStartFPVMode(app) ==
  IF app.e.followedVehicleId = Null THEN app
  ELSE startFPVMode([app EXCEPT !.e.isFPVActive = TRUE,
                                !.e.fpvVehicleId = app.e.followedVehicleId],
                    app.e.followedVehicleId)
uiStopFPVMode(app) ==
  stopFPVMode([app EXCEPT !.e.isFPVActive = FALSE, !.e.fpvVehicleId = Null])

\* the listener of 'camera:reset'
onCameraReset(app) == stopFPVMode(stopFollowMode(app))

\* the listener of 'vehicle:update': updateVehicle (whose 'vehicles:count'
\* reaches the listener above and whose 'vehicle:selected' reaches
\* showVehicleInfo), then ui.updateVehicleData; an exception of
\* updateVehicle ends the listener (EventBus.emit catches it)
onVehicleUpdate(app, id, data) ==
  CHOOSE left \in
    {LET counted ==
           IF \E i \in DOMAIN m1.emitted : m1.emitted[i] = "vehicles:count"
           THEN onVehiclesCount([app EXCEPT !.m = m1])
           ELSE [app EXCEPT !.m = m1]
         shown ==
           IF \E i \in DOMAIN m1.emitted : m1.emitted[i] = "vehicle:selected"
           THEN showVehicleInfo(counted, id)
           ELSE counted
     IN IF m1.threw THEN shown
        ELSE [shown EXCEPT !.e.vehicleData = MapSet(@, id, data)] :
       m1 \in {updateVehicle(app.m, id, data)}} : TRUE

\* the records of the 'vehicle:update' events: telemetry with the group
\* (Null when absent) and the level of the vehicle
AppRecords ==
  { [type |-> "dump_truck", position |-> PInside, heading |-> 0,
     speed |-> 0, status |-> "idle", tripEvents |-> None,
     group |-> Null, level |-> 0],
    [type |-> "loader", position |-> PInside2, heading |-> 90,
     speed |-> 5, status |-> "moving", tripEvents |-> None,
     group |-> "hauling", level |-> 1] }

\* the filter states sent with 'vehicles:filter' and the levels sent with
\* 'level:select'
FilterStates ==
  { AllEnabled,
    [AllEnabled EXCEPT !.types["dump_truck"] = FALSE],
    [AllEnabled EXCEPT !.groups["hauling"] = FALSE] }
Levels == {"all", "1"}

\* a handler op(id, arg) that leaves the application as app; expCall
\* records the event and the ids registered when it arrived
Handled(op, id, arg, app) ==
  /\ vehicles' = app.m.vehicles
  /\ selectedVehicleId' = app.m.selectedVehicleId
  /\ managerVolume' = app.m.drivableVolume
  /\ trailsEnabled' = app.m.trailsEnabled
  /\ scene' = app.m.scene
  /\ mgrCall' = [op |-> op, id |-> id, data |-> arg,
                 known |-> id \in DOMAIN vehicles,
                 selectedBefore |-> selectedVehicleId,
                 emitted |-> app.m.emitted, threw |-> app.m.threw]
  /\ experience' = app.e
  /\ expCall' = [op |-> op, id |-> id, arg |-> arg,
                 registered |-> DOMAIN vehicles]
  /\ UNCHANGED <<poolVars, volVars, query, soloVars, wsVars, busVars, apiVars, lifeVars>>

\* removeVehicle(id) with the listeners of the events it emits
\* ('vehicles:count'; 'vehicle:deselected' stops the follow mode)
onRemoveVehicle(app, id) ==
  LET m1 == removeVehicle(app.m, id)
      counted == IF \E i \in DOMAIN m1.emitted : m1.emitted[i] = "vehicles:count"
                 THEN onVehiclesCount([app EXCEPT !.m = m1])
                 ELSE [app EXCEPT !.m = m1]
  IN IF \E i \in DOMAIN m1.emitted : m1.emitted[i] = "vehicle:deselected"
     THEN stopFollowMode(counted)
     ELSE counted

\* selectVehicle(id) of the click and search handlers, with the listener of
\* 'vehicle:selected'
onSelectVehicle(app, id) ==
  LET m1 == selectVehicle(app.m, id)
  IN IF \E i \in DOMAIN m1.emitted : m1.emitted[i] = "vehicle:selected"
     THEN showVehicleInfo([app EXCEPT !.m = m1], id)
     ELSE [app EXCEPT !.m = m1]

\* deselectVehicle() of the click handler, with the listener of
\* 'vehicle:deselected' (hideVehicleInfo, stopFollowMode)
onDeselectVehicle(app) ==
  LET m1 == deselectVehicle(app.m)
  IN IF \E i \in DOMAIN m1.emitted : m1.emitted[i] = "vehicle:deselected"
     THEN stopFollowMode([app EXCEPT !.m = m1])
     ELSE [app EXCEPT !.m = m1]

AppVehicleUpdate ==
  \E id \in VehicleIds, data \in AppRecords :
    Handled("vehicle:update", id, Some(data), onVehicleUpdate(App, id, data))
AppRemoveVehicle ==
  \E id \in VehicleIds :
    Handled("removeVehicle", id, None, onRemoveVehicle(App, id))
AppVehiclesFilter ==
  \E f \in FilterStates :
    Handled("vehicles:filter", Null, Some(f), onVehiclesFilter(App, f))
AppVehiclesFilterReset ==
  Handled("vehicles:filter:reset", Null, None, onVehiclesFilterReset(App))
AppLevelSelect ==
  \E level \in Levels :
    Handled("level:select", Null, Some(level), onLevelSelect(App, level))
AppStartFollowMode ==
  \E id \in VehicleIds :
    Handled("startFollowMode", id, None, startFollowMode(App, id))
AppStopFollowMode ==
  Handled("stopFollowMode", Null, None, stopFollowMode(App))
AppStartFPVMode ==
  \E id \in VehicleIds :
    Handled("startFPVMode", id, None, startFPVMode(App, id))
AppStopFPVMode ==
  Handled("stopFPVMode", Null, None, stopFPVMode(App))

\* the UI: a click on a vehicle or beside every vehicle, the Follow, FPV,
\* Exit FPV and Reset View buttons
UISelectVehicle ==
  \E id \in VehicleIds :
    Handled("selectVehicle", id, None, onSelectVehicle(App, id))
UIDeselectVehicle ==
  Handled("deselectVehicle", Null, None, onDeselectVehicle(App))
UIToggleFollowMode ==
  Handled("toggleFollowMode", Null, None, toggleFollowMode(App))
UIStartFPVMode ==
  Handled("fpv:start", Null, None, uiStartFPVMode(App))
UIStopFPVMode ==
  Handled("fpv:stop", Null, None, uiStopFPVMode(App))
UICameraReset ==
  Handled("camera:reset", Null, None, onCameraReset(App))

(***************************************************************************)
(* WebSocketService                                                        *)
(***************************************************************************)

DefaultMaxReconnectAttempts == 5

\* largest config.maxReconnectAttempts handed to the constructor
MaxAttemptsOpt == 2

\* new WebSocketService({config: {maxReconnectAttempts, simulate}});
\* simulate = FALSE stands for config.simulate === false.  socket is the
\* state of the WebSocket the service created last ("none" before the
\* first), closing the number of sockets that disconnect() closed and
\* dropped and whose close event is pending, disconnected whether
\* disconnect() was called, timers the number of pending reconnect timeouts, intervals the
\* number of simulation intervals started, and connects the number of
\* connect() calls made.
ServiceConstructor(optMaxReconnectAttempts, simulate) ==
  /\ service =
       [isConnected |-> FALSE, reconnectAttempts |-> 0,
        maxReconnectAttempts |-> OrDefault(optMaxReconnectAttempts,
                                           DefaultMaxReconnectAttempts),
        isSimulating |-> simulate,
        socket |-> "none", timers |-> 0, intervals |-> 0, connects |-> 0,
        status |-> "none", closing |-> 0, disconnected |-> FALSE]
  /\ serviceCall = [op |-> "new", message |-> None, emitted |-> <<>>]

\* startSimulation()
startSimulation(s) ==
  [s EXCEPT !.isSimulating = TRUE, !.status = "connected",
            !.intervals = @ + 1]

\* connectWebSocket(): a new socket with the four callbacks
connectWebSocket(s) ==
  [s EXCEPT !.status = "connecting", !.socket = "connecting"]

\* connect()
connect(s) ==
  LET s1 == [s EXCEPT !.connects = @ + 1]
  IN IF s.isSimulating THEN startSimulation(s1) ELSE connectWebSocket(s1)

\* socket.onopen
onopen(s) ==
  [s EXCEPT !.isConnected = TRUE, !.reconnectAttempts = 0,
            !.status = "connected", !.socket = "open"]

attemptReconnect_unbounded(s) ==
  [s EXCEPT !.reconnectAttempts = @ + 1, !.timers = @ + 1]

\* attemptReconnect()
attemptReconnect(s) ==
  IF s.reconnectAttempts < s.maxReconnectAttempts
  THEN [s EXCEPT !.reconnectAttempts = @ + 1, !.timers = @ + 1]
  ELSE startSimulation(s)

\* socket.onclose
onclose(s) ==
  attemptReconnect([s EXCEPT !.isConnected = FALSE,
                             !.status = "disconnected",
                             !.socket = "closed"])

\* the timeout set by attemptReconnect
onReconnectTimeout(s) == connectWebSocket([s EXCEPT !.timers = @ - 1])

\* disconnect(): clears the simulation interval, closes the socket and
\* drops the reference to it; the close event of a socket that was
\* connecting or open is delivered later
wsDisconnect(s) ==
  [s EXCEPT !.intervals = IF @ > 0 THEN @ - 1 ELSE @,
            !.closing = IF s.socket \in {"connecting", "open"} THEN @ + 1 ELSE @,
            !.socket = "none",
            !.isConnected = FALSE, !.status = "disconnected",
            !.disconnected = TRUE]

\* onclose of a socket that disconnect() dropped: this.socket is not the
\* socket that closed
oncloseDropped(s) ==
  attemptReconnect([s EXCEPT !.isConnected = FALSE,
                             !.status = "disconnected",
                             !.closing = @ - 1])

\* The text of a socket message is given by what JSON.parse makes of it:
\* json tells whether it parses, and then type, id (Null when absent),
\* record (the message as a telemetry record) and vehicles (None when
\* absent) are the fields of the parsed object.
JSONparse(text) ==
  IF text.json
  THEN Some([type |-> text.type, id |-> text.id, record |-> text.record,
             vehicles |-> text.vehicles])
  ELSE None

\* vehicles.forEach(vehicle => emit('vehicle:update', vehicle)) from the
\* i-th record on: the application after the listeners ran
RECURSIVE EmitEach(_, _, _)
EmitEach(app, records, i) ==
  IF i > Len(records) THEN app
  ELSE EmitEach(onVehicleUpdate(app, records[i].id, records[i]), records, i + 1)

handleMessage_lastFirst(app, text) ==
  LET parsed == JSONparse(text)
  IN IF parsed = None THEN [app |-> app, emitted |-> <<>>]
     ELSE IF parsed[1].id # Null
     THEN [app |-> onVehicleUpdate(app, parsed[1].id, parsed[1].record),
           emitted |-> <<parsed[1].record>>]
     ELSE IF parsed[1].vehicles = None
     THEN [app |-> app, emitted |-> <<>>]
     ELSE LET vs == parsed[1].vehicles[1]
              reversed == [i \in 1..Len(vs) |-> vs[Len(vs) + 1 - i]]
          IN [app |-> EmitEach(app, reversed, 1), emitted |-> reversed]

\* handleMessage(data): the application after it, and the records it
\* emitted with 'vehicle:update'.  A message that does not parse, and a
\* batch whose vehicles is undefined, end in the catch block.
handleMessage(app, text) ==
  LET parsed == JSONparse(text)
  IN IF parsed = None THEN [app |-> app, emitted |-> <<>>]
     ELSE LET message == parsed[1]
          IN IF message.type = "vehicle_update" \/ message.id # Null
             THEN [app |-> onVehicleUpdate(app, message.id, message.record),
                   emitted |-> <<message.record>>]
             ELSE IF message.type = "vehicle_batch"
             THEN IF message.vehicles = None
                  THEN [app |-> app, emitted |-> <<>>]
                  ELSE [app |-> EmitEach(app, message.vehicles[1], 1),
                        emitted |-> message.vehicles[1]]
             ELSE [app |-> app, emitted |-> <<>>]


\* the records sent over the socket: those of AppRecords with their id
WithId(id, r) ==
  [id |-> id, type |-> r.type, position |-> r.position,
   heading |-> r.heading, speed |-> r.speed, status |-> r.status,
   tripEvents |-> r.tripEvents, group |-> r.group, level |-> r.level]
SocketRecords == {WithId(id, r) : id \in VehicleIds, r \in AppRecords}

\* most records in a batch
MaxBatch == 2

\* the message texts: one record, a batch, a batch without its vehicles
\* array, and a text that is not JSON
UpdateText(r) ==
  [json |-> TRUE, type |-> r.type, id |-> r.id, record |-> r,
   vehicles |-> None]
BatchText(records) ==
  [json |-> TRUE, type |-> "vehicle_batch", id |-> Null, record |-> None,
   vehicles |-> records]
Batches ==
  UNION {[1..n -> SocketRecords] : n \in 0..MaxBatch}
SocketTexts ==
  {UpdateText(r) : r \in SocketRecords}
    \cup {BatchText(Some(b)) : b \in Batches}
    \cup {BatchText(None),
          [json |-> FALSE, type |-> Null, id |-> Null, record |-> None,
           vehicles |-> None]}

\* a callback op of the service that leaves the service as s and the
\* application as app; serviceCall records the callback, the message text
\* and the records emitted with 'vehicle:update'
ServiceDid(op, message, emitted, s, app) ==
  /\ service' = s
  /\ serviceCall' = [op |-> op, message |-> message, emitted |-> emitted]
  /\ vehicles' = app.m.vehicles
  /\ selectedVehicleId' = app.m.selectedVehicleId
  /\ managerVolume' = app.m.drivableVolume
  /\ trailsEnabled' = app.m.trailsEnabled
  /\ scene' = app.m.scene
  /\ experience' = app.e
  /\ UNCHANGED <<poolVars, volVars, query, soloVars, mgrCall, expCall,
               busVars, apiVars, lifeVars>>

ServiceConnect ==
  /\ service.connects = 0
  /\ ServiceDid("connect", None, <<>>, connect(service), App)
SocketOpen ==
  /\ service.socket = "connecting"
  /\ ServiceDid("onopen", None, <<>>, onopen(service), App)
\* a socket closes without having opened / after it had opened
SocketFail ==
  /\ service.socket = "connecting"
  /\ ServiceDid("onclose", None, <<>>, onclose(service), App)
SocketDrop ==
  /\ service.socket = "open"
  /\ ServiceDid("onclose", None, <<>>, onclose(service), App)
ReconnectTimeout ==
  /\ service.timers > 0
  /\ ServiceDid("timeout", None, <<>>, onReconnectTimeout(service), App)
\* disconnect() is called once, after connect()
ServiceDisconnect ==
  /\ service.connects > 0
  /\ ~service.disconnected
  /\ ServiceDid("disconnect", None, <<>>, wsDisconnect(service), App)
SocketClosed ==
  /\ service.closing > 0
  /\ ServiceDid("onclose", None, <<>>, oncloseDropped(service), App)
SocketMessage ==
  /\ service.socket = "open"
  /\ \E text \in SocketTexts :
       LET r == handleMessage(App, text)
       IN ServiceDid("onmessage", Some(text), r.emitted, service, r.app)

(***************************************************************************)
(* EventBus.  listeners maps an event to its callbacks in insertion order  *)
(* (a Set iterates in insertion order).  A handler is [cb, once]: the      *)
(* callback cb itself, registered with on, or the wrapper that once built  *)
(* around cb.  The callbacks are "log" (returns), "fail" (throws), "again" *)
(* (its first invocation emits the same event again from inside the        *)
(* handler) and "experience" (the listener the Experience registers for    *)
(* 'vehicle:update').  calls counts the invocations of each wrapper of     *)
(* once and emits the emit calls made from outside a handler.  emit works  *)
(* on w = [bus, app, trace]: the bus, the application its callbacks act on *)
(* and the handlers invoked so far, in order.                              *)
(***************************************************************************)

Events == {"vehicle:update", "vehicles:count", "connection:status"}
Callbacks == {"log", "fail", "again", "experience"}
OnceCallbacks == {"log", "fail", "again"}
Handlers == [cb : Callbacks, once : BOOLEAN]

\* largest number of emit calls made on one bus, and of handlers
\* registered for one event
MaxEmits == 2
MaxListeners == 2

BusConstructor ==
  /\ bus = [listeners |-> [e \in Events |-> <<>>],
            calls |-> [e \in Events |-> [cb \in OnceCallbacks |-> 0]],
            emits |-> 0]
  /\ busCall = [op |-> "new", event |-> Null, cb |-> Null, arg |-> None,
                registered |-> <<>>, trace |-> <<>>]

\* listeners.get(event).has(h)
Has(b, event, h) ==
  \E i \in DOMAIN b.listeners[event] : b.listeners[event][i] = h

\* on(event, callback)
on(b, event, h) ==
  IF Has(b, event, h) THEN b
  ELSE [b EXCEPT !.listeners[event] = Append(@, h)]

\* off(event, callback)
off(b, event, h) ==
  [b EXCEPT !.listeners[event] = SelectSeq(@, LAMBDA g : g # h)]

\* once(event, callback): on(event, wrapper)
once(b, event, cb) == on(b, event, [cb |-> cb, once |-> TRUE])

RECURSIVE EmitFrom(_, _, _, _)

\* callback(...args): what it leaves, and whether it threw
callback(w, event, arg, h) ==
  CASE h.cb = "log" -> [w |-> w, threw |-> FALSE]
    [] h.cb = "fail" -> [w |-> w, threw |-> TRUE]
    [] h.cb = "again" ->
         IF w.bus.calls[event]["again"] = 1
         THEN [w |-> EmitFrom(w, event, arg, {}), threw |-> FALSE]
         ELSE [w |-> w, threw |-> FALSE]
    [] h.cb = "experience" /\ event = "vehicles:count" ->
         [w |-> [w EXCEPT !.app.e.vehicleCount = arg], threw |-> FALSE]
    [] h.cb = "experience" /\ event # "vehicles:count" ->
         CHOOSE r \in {[w |-> [w EXCEPT !.app = app], threw |-> app.m.threw] :
                         app \in {onVehicleUpdate(
                                    [w.app EXCEPT !.m.threw = FALSE],
                                    arg[1].id, arg[1])}} : TRUE

\* the wrapper of once: callback(...args), then off(event, wrapper), which
\* is not reached when the callback throws
wrapper(w, event, arg, h) ==
  CHOOSE x \in
    {IF r.threw THEN r
     ELSE [w |-> [r.w EXCEPT !.bus = off(@, event, h)], threw |-> FALSE] :
       r \in {callback([w EXCEPT !.bus.calls[event][h.cb] = @ + 1],
                       event, arg, h)}} : TRUE

\* a handler invoked by emit
invoke(w, event, arg, h) ==
  LET traced == [w EXCEPT !.trace = Append(@, h)]
  IN IF h.once THEN wrapper(traced, event, arg, h)
     ELSE callback(traced, event, arg, h)

\* callbacks.forEach with the try / catch around each callback, from the
\* handlers not yet visited on: handlers added meanwhile are visited and
\* handlers removed meanwhile are not
EmitFrom(w, event, arg, visited) ==
  LET pending == SelectSeq(w.bus.listeners[event], LAMBDA h : h \notin visited)
  IN IF pending = <<>> THEN w
     ELSE CHOOSE x \in
            {EmitFrom(r.w, event, arg, visited \cup {pending[1]}) :
               r \in {invoke(w, event, arg, pending[1])}} : TRUE

RECURSIVE EmitUncaught(_, _, _, _)
EmitUncaught(w, event, arg, visited) ==
  LET pending == SelectSeq(w.bus.listeners[event], LAMBDA h : h \notin visited)
  IN IF pending = <<>> THEN w
     ELSE CHOOSE x \in
            {IF r.threw THEN r.w
             ELSE EmitUncaught(r.w, event, arg, visited \cup {pending[1]}) :
               r \in {invoke(w, event, arg, pending[1])}} : TRUE
emit_uncaught(w, event, arg) == EmitUncaught(w, event, arg, {})

\* emit(event, ...args)
emit(w, event, arg) == EmitFrom(w, event, arg, {})

\* the arguments of the events (a record without tripEvents, and one with
\* the empty tripEvents array that formatVehicleData sends)
BusRecords ==
  {WithId("v1", r) : r \in {a \in AppRecords : a.type = "dump_truck"}}
    \cup {[WithId("v1", r) EXCEPT !.tripEvents = Some(<<>>)] :
             r \in {a \in AppRecords : a.type = "loader"}}
EventArgs(event) ==
  IF event = "vehicle:update" THEN {Some(r) : r \in BusRecords}
  ELSE IF event = "vehicles:count" THEN {Some(1)}
  ELSE {Some("connected")}

\* a call op on the bus that leaves w; busCall records the call, the
\* handlers of its event registered when it was made and the handlers
\* invoked
BusDid(op, event, cb, arg, left) ==
  \E w \in {left} :
  /\ bus' = w.bus
  /\ busCall' = [op |-> op, event |-> event, cb |-> cb, arg |-> arg,
                 registered |-> bus.listeners[event], trace |-> w.trace]
  /\ vehicles' = w.app.m.vehicles
  /\ selectedVehicleId' = w.app.m.selectedVehicleId
  /\ managerVolume' = w.app.m.drivableVolume
  /\ trailsEnabled' = w.app.m.trailsEnabled
  /\ scene' = w.app.m.scene
  /\ experience' = w.app.e
  /\ UNCHANGED <<poolVars, volVars, query, soloVars, mgrCall, expCall,
                 wsVars, apiVars, lifeVars>>

\* the bus and the application at the start of a call
World == [bus |-> bus, app |-> App, trace |-> <<>>]

\* The listeners of the Experience are registered for 'vehicle:update' and
\* 'vehicles:count', which has no other; 'connection:status' has the
\* callback "log" only; "again" is registered with once, and
\* once(event, cb) is called once per event and callback.
BusOn ==
  \E event \in Events, cb \in Callbacks \ {"again"} :
    /\ event = "connection:status" => cb = "log"
    /\ event = "vehicles:count" => cb = "experience"
    /\ Len(bus.listeners[event]) < MaxListeners
    /\ BusDid("on", event, cb, None,
              [World EXCEPT !.bus = on(@, event, [cb |-> cb, once |-> FALSE])])
BusOnce ==
  \E cb \in OnceCallbacks :
    LET event == "vehicle:update"
    IN /\ ~Has(bus, event, [cb |-> cb, once |-> TRUE])
       /\ bus.calls[event][cb] = 0
       /\ Len(bus.listeners[event]) < MaxListeners
       /\ BusDid("once", event, cb, None,
                 [World EXCEPT !.bus = once(@, event, cb)])
BusOff ==
  \E event \in Events, cb \in Callbacks :
    /\ Has(bus, event, [cb |-> cb, once |-> FALSE])
    /\ BusDid("off", event, cb, None,
              [World EXCEPT !.bus = off(@, event, [cb |-> cb, once |-> FALSE])])
BusEmit ==
  \E event \in Events :
    \E arg \in EventArgs(event) :
      /\ bus.emits < MaxEmits
      /\ BusDid("emit", event, Null, arg,
                emit([World EXCEPT !.bus.emits = @ + 1], event, arg))

(***************************************************************************)
(* VehicleAPIService                                                       *)
(***************************************************************************)

\* UPDATE_RATES, in milliseconds, and the period of the master interval
FOLLOWED == 100
SELECTED == 200
VISIBLE == 500
BACKGROUND == 2000
IDLE == 5000
MasterPeriod == 100

\* pathProgress and pathSpeed count ProgressDen-ths of a segment
ProgressDen == 3

\* most ticks of one update loop
MaxApiTicks == 6

\* new VehicleAPIService({config, events}); events tells whether an event
\* bus was handed over.  tunnelPaths is None until mine data has arrived;
\* simulatedVehicles lists the vehicles in the insertion order of the Map;
\* masterUpdateInterval tells whether the interval is running and
\* tickCount is the counter of the running interval's callback.
APIConstructor(events) ==
  /\ api = [events |-> events, isConnected |-> FALSE,
            followedVehicleId |-> Null, selectedVehicleId |-> Null,
            visibleVehicleIds |-> {}, masterUpdateInterval |-> FALSE,
            tickCount |-> 0, tunnelPaths |-> None,
            simulatedVehicles |-> <<>>, vehiclesCreated |-> FALSE,
            status |-> "none"]
  /\ apiCall = [op |-> "new", updated |-> <<>>, before |-> <<>>,
                trace |-> <<>>]

\* this.events?.emit(event, arg) made by the service s
apiEmit(s, w, event, arg) ==
  IF s.events THEN emit(w, event, arg) ELSE w

\* the configs of vehicles 1 and 5 of the 25 that createSimulatedVehicles
\* generates (LOADER_01 is written v1 and HAUL_05 v2); index is the
\* position in vehicleConfigs
VehicleConfigs ==
  << [id |-> "v1", type |-> "loader", group |-> "loading", pathIndex |-> 0,
      index |-> 0],
     [id |-> "v2", type |-> "haul_truck", group |-> "transport",
      pathIndex |-> 4, index |-> 4] >>

\* Math.floor(((index * 0.15) % 1) * (path.length - 1))
StartWaypoint(index, path) ==
  (((index * 15) % 100) * (Len(path) - 1)) \div 100

\* formatVehicleData(vehicle)
formatVehicleData(vehicle) ==
  [id |-> vehicle.id, type |-> vehicle.type, group |-> vehicle.group,
   status |-> vehicle.status, level |-> vehicle.level,
   position |-> vehicle.position, heading |-> vehicle.heading,
   speed |-> vehicle.speed,
   tripEvents |-> IF vehicle.tripEvents = None THEN Some(<<>>)
                  ELSE vehicle.tripEvents]

\* simulatedVehicles.set(id, vehicle)
SimSet(vs, vehicle) ==
  IF \E i \in DOMAIN vs : vs[i].id = vehicle.id
  THEN [i \in DOMAIN vs |-> IF vs[i].id = vehicle.id THEN vehicle ELSE vs[i]]
  ELSE Append(vs, vehicle)

\* createSimulatedVehicles() from the i-th config on; pathSpeeds gives the
\* random pathSpeed of each config.  st = [s, w, updated]: the service,
\* what its events act on, and the records a tick has emitted.
RECURSIVE CreateFrom(_, _, _)
CreateFrom(st, pathSpeeds, i) ==
  IF i > Len(VehicleConfigs) THEN st
  ELSE LET config == VehicleConfigs[i]
           paths == st.s.tunnelPaths[1]
           path == paths[(config.pathIndex % Len(paths)) + 1]
           startWaypoint == StartWaypoint(config.index, path)
           vehicle == [id |-> config.id, type |-> config.type,
                       group |-> config.group, status |-> "moving",
                       position |-> path[startWaypoint + 1], heading |-> 0,
                       speed |-> 0, level |-> 0, path |-> path,
                       currentWaypointIndex |-> startWaypoint,
                       pathProgress |-> 0, pathSpeed |-> pathSpeeds[i],
                       pathDirection |-> 0, tripEvents |-> None]
       IN IF Len(path) < 2 THEN CreateFrom(st, pathSpeeds, i + 1)
          ELSE CHOOSE x \in
                 {CreateFrom(c, pathSpeeds, i + 1) :
                    c \in {[st EXCEPT
                              !.s.simulatedVehicles = SimSet(@, vehicle),
                              !.w = apiEmit(st.s, @, "vehicle:update",
                                      Some(formatVehicleData(vehicle)))]}} :
                 TRUE
createSimulatedVehicles(st, pathSpeeds) ==
  CHOOSE r \in
    {[c EXCEPT !.w = apiEmit(c.s, c.w, "vehicles:count",
                             Some(Len(c.s.simulatedVehicles)))] :
       c \in {CreateFrom(st, pathSpeeds, 1)}} : TRUE

\* setMineData(model, bounds, center); paths is what generateTunnelPaths
\* derives from the mine
setMineData(st, paths, pathSpeeds) ==
  LET st1 == [st EXCEPT !.s.tunnelPaths = Some(paths)]
  IN IF ~st.s.vehiclesCreated
     THEN [createSimulatedVehicles(st1, pathSpeeds)
             EXCEPT !.s.vehiclesCreated = TRUE]
     ELSE st1

\* clearInterval(masterUpdateInterval) and setInterval(..., 100), with a
\* fresh tickCount
startUpdateLoop(s) ==
  [s EXCEPT !.masterUpdateInterval = TRUE, !.tickCount = 0]

\* initSimulation()
initSimulation(st, pathSpeeds) ==
  IF st.s.tunnelPaths # None
  THEN [createSimulatedVehicles(st, pathSpeeds)
          EXCEPT !.s.vehiclesCreated = TRUE]
  ELSE st

\* initialize() in simulation mode
initialize(st, pathSpeeds) ==
  CHOOSE r \in
    {[c EXCEPT !.s = startUpdateLoop([@ EXCEPT !.isConnected = TRUE,
                                                !.status = "connected"]),
               !.w = apiEmit(c.s, @, "connection:status",
                             Some("connected"))] :
       c \in {initSimulation(st, pathSpeeds)}} : TRUE

\* getUpdateRate(vehicleId), for the vehicle of that id
getUpdateRate(s, vehicle) ==
  IF vehicle.id = s.followedVehicleId THEN FOLLOWED
  ELSE IF vehicle.id = s.selectedVehicleId THEN SELECTED
  ELSE IF vehicle.id \in s.visibleVehicleIds THEN VISIBLE
  ELSE IF vehicle.status = "idle" \/ vehicle.status = "maintenance" THEN IDLE
  ELSE FOLLOWED

\* Math.atan2(dx, dz) * (180 / Math.PI) along the axes
Atan2Deg(dx, dz) ==
  CASE dx = 0 /\ dz >= 0 -> 0
    [] dx > 0 /\ dz = 0 -> 90
    [] dx = 0 /\ dz < 0 -> 180
    [] dx < 0 /\ dz = 0 -> 0 - 90

\* tripEvents = tripEvents || []; tripEvents.push(event)
PushTrip(tripEvents, event) ==
  IF tripEvents = None THEN Some(<<event>>)
  ELSE Some(Append(tripEvents[1], event))

apiUpdateVehicle_wrapAround(vehicle) ==
  LET pathLen == Len(vehicle.path)
      progress == vehicle.pathProgress + vehicle.pathSpeed
      complete == progress >= ProgressDen
      currIdx == IF complete THEN (vehicle.currentWaypointIndex + 1) % pathLen
                 ELSE vehicle.currentWaypointIndex
      nextIdx == (currIdx + 1) % pathLen
      t == IF complete THEN 0 ELSE progress
      position == [i \in 1..3 |->
                     vehicle.path[currIdx + 1][i]
                       + ((vehicle.path[nextIdx + 1][i]
                             - vehicle.path[currIdx + 1][i]) * t)
                           \div ProgressDen]
  IN [vehicle EXCEPT !.pathDirection = 1, !.pathProgress = t,
                     !.currentWaypointIndex = currIdx,
                     !.position = position]

\* updateVehicle(vehicle) of the service: one step along the path.
\* pathDirection 0 stands for undefined; the paths run along the axes, so
\* that Math.sqrt(dx * dx + dz * dz) is |dx| + |dz|; speed counts 36 per
\* world unit, which is 18 per half unit.
apiUpdateVehicle(vehicle) ==
  IF Len(vehicle.path) < 2 THEN vehicle
  ELSE
  LET path == vehicle.path
      pathLen == Len(path)
      direction0 == IF vehicle.pathDirection = 0 THEN 1
                    ELSE vehicle.pathDirection
      progress == vehicle.pathProgress + vehicle.pathSpeed
      complete == progress >= ProgressDen
      moved == vehicle.currentWaypointIndex + direction0
      atEnd == complete /\ moved >= pathLen - 1
      atStart == complete /\ ~atEnd /\ moved <= 0
      currIdx == IF ~complete THEN vehicle.currentWaypointIndex
                 ELSE IF atEnd THEN pathLen - 1
                 ELSE IF atStart THEN 0
                 ELSE moved
      pathDirection == IF atEnd THEN 0 - 1
                       ELSE IF atStart THEN 1
                       ELSE direction0
      tripEvents == IF atEnd THEN PushTrip(vehicle.tripEvents, "dump")
                    ELSE IF atStart THEN PushTrip(vehicle.tripEvents, "load")
                    ELSE vehicle.tripEvents
      stepped == currIdx + pathDirection
      nextIdx == IF stepped < 0 THEN 0
                 ELSE IF stepped > pathLen - 1 THEN pathLen - 1
                 ELSE stepped
      currentWaypoint == path[currIdx + 1]
      nextWaypoint == path[nextIdx + 1]
      t == IF complete THEN 0 ELSE progress
      position == [i \in 1..3 |->
                     currentWaypoint[i]
                       + ((nextWaypoint[i] - currentWaypoint[i]) * t)
                           \div ProgressDen]
      dx == position[1] - vehicle.position[1]
      dz == position[3] - vehicle.position[3]
      heading == IF dx # 0 \/ dz # 0 THEN Atan2Deg(dx, dz)
                 ELSE vehicle.heading
      distance == Abs(dx) + Abs(dz)
  IN [vehicle EXCEPT !.pathDirection = pathDirection,
                     !.pathProgress = t,
                     !.currentWaypointIndex = currIdx,
                     !.tripEvents = tripEvents,
                     !.position = position,
                     !.heading = heading,
                     !.speed = distance * 18]

\* the callback of the master interval from the i-th vehicle on.
\* updated lists the records emitted.
RECURSIVE TickFrom(_, _)
TickFrom(st, i) ==
  IF i > Len(st.s.simulatedVehicles) THEN st
  ELSE LET vehicle == st.s.simulatedVehicles[i]
           updateRate == getUpdateRate(st.s, vehicle)
           tickInterval == updateRate \div MasterPeriod
           moved == apiUpdateVehicle(vehicle)
       IN IF st.s.tickCount % tickInterval = 0
          THEN CHOOSE x \in
                 {TickFrom(c, i + 1) :
                    c \in {[s |-> [st.s EXCEPT !.simulatedVehicles[i] = v],
                            w |-> apiEmit(st.s, st.w, "vehicle:update",
                                          Some(formatVehicleData(v))),
                            updated |-> Append(st.updated,
                                               formatVehicleData(v))] :
                           v \in {moved}}} : TRUE
          ELSE TickFrom(st, i + 1)
onMasterInterval(st) ==
  CHOOSE x \in {TickFrom(c, 1) : c \in {[st EXCEPT !.s.tickCount = @ + 1]}} :
    TRUE

\* setFollowedVehicle, setSelectedVehicle, setVisibleVehicles
setFollowedVehicle(s, vehicleId) == [s EXCEPT !.followedVehicleId = vehicleId]
setSelectedVehicle(s, vehicleId) == [s EXCEPT !.selectedVehicleId = vehicleId]
setVisibleVehicles(s, vehicleIds) == [s EXCEPT !.visibleVehicleIds = vehicleIds]

\* disconnect()
apiDisconnect(st) ==
  [s |-> [st.s EXCEPT !.masterUpdateInterval = FALSE,
                      !.isConnected = FALSE, !.status = "disconnected"],
   w |-> apiEmit(st.s, st.w, "connection:status", Some("disconnected")),
   updated |-> <<>>]

\* the paths generateTunnelPaths may produce: along z, along x then z, and
\* one with a single point; and the pathSpeeds drawn at random
PathZ == <<Vec(32, 8, 32), Vec(32, 8, 48)>>
PathXZ == <<Vec(32, 8, 32), Vec(48, 8, 32), Vec(48, 8, 48)>>
PathPoint == <<Vec(32, 8, 32)>>
TunnelPaths ==
  { <<PathZ>>, <<PathXZ, PathZ, PathPoint, PathZ, PathXZ>>,
    <<PathPoint, PathXZ>> }
PathSpeeds == {<<1, 2>>, <<2, 1>>}

\* the service and what its events act on at the start of a call
Service == [s |-> api, w |-> World, updated |-> <<>>]

\* a call or callback op of the service that leaves st; apiCall records
\* it with the records its tick emitted, the vehicles before it and the
\* handlers its events invoked
ApiDid(op, left) ==
  \E st \in {left} :
  /\ api' = st.s
  /\ apiCall' = [op |-> op, updated |-> st.updated,
                 before |-> api.simulatedVehicles, trace |-> st.w.trace]
  /\ bus' = st.w.bus
  /\ vehicles' = st.w.app.m.vehicles
  /\ selectedVehicleId' = st.w.app.m.selectedVehicleId
  /\ managerVolume' = st.w.app.m.drivableVolume
  /\ trailsEnabled' = st.w.app.m.trailsEnabled
  /\ scene' = st.w.app.m.scene
  /\ experience' = st.w.app.e
  /\ UNCHANGED <<poolVars, volVars, query, soloVars, mgrCall, expCall,
                 wsVars, busCall, lifeVars>>

ApiSetMineData ==
  \E paths \in TunnelPaths, pathSpeeds \in PathSpeeds :
    /\ api.tunnelPaths = None
    /\ ApiDid("setMineData", setMineData(Service, paths, pathSpeeds))
ApiInitialize ==
  \E pathSpeeds \in PathSpeeds :
    /\ ~api.isConnected
    /\ ApiDid("initialize", initialize(Service, pathSpeeds))
ApiTick ==
  /\ api.masterUpdateInterval
  /\ api.tickCount < MaxApiTicks
  /\ ApiDid("tick", onMasterInterval(Service))
ApiSetFollowedVehicle ==
  \E id \in MotionIds \cup {Null} :
    ApiDid("setFollowedVehicle",
           [Service EXCEPT !.s = setFollowedVehicle(@, id)])
ApiSetSelectedVehicle ==
  \E id \in MotionIds \cup {Null} :
    ApiDid("setSelectedVehicle",
           [Service EXCEPT !.s = setSelectedVehicle(@, id)])
ApiSetVisibleVehicles ==
  \E ids \in SUBSET VehicleIds :
    ApiDid("setVisibleVehicles",
           [Service EXCEPT !.s = setVisibleVehicles(@, ids)])
ApiDisconnect ==
  /\ api.isConnected
  /\ ApiDid("disconnect", apiDisconnect(Service))

(***************************************************************************)
(* The life cycle of the Experience                                        *)
(***************************************************************************)

\* most animation frames delivered in one behaviour
MaxFrames == 2

\* new Experience(options): the state fields, and init() up to its first
\* await.  phase is the position of init(): "config" while
\* ConfigLoader.load is awaited, "assets" while loadAssets is awaited,
\* "done" once init has returned and "failed" once it has caught an error.
\* subsystems tells whether initSubsystems has run, frame whether a
\* requestAnimationFrame callback is pending, frames counts the callbacks
\* delivered and disposed records that dispose() was called.
LifeConstructor ==
  /\ life = [phase |-> "config", isRunning |-> FALSE, isPaused |-> FALSE,
             subsystems |-> FALSE, frame |-> FALSE, frames |-> 0,
             disposed |-> FALSE]
  /\ lifeCall = [op |-> "new", rendered |-> FALSE, advanced |-> FALSE,
                 lost |-> {}]

\* the Experience once init() has returned: the render loop is running
Started ==
  [phase |-> "done", isRunning |-> TRUE, isPaused |-> FALSE,
   subsystems |-> TRUE, frame |-> TRUE, frames |-> 0, disposed |-> FALSE]

\* updateFollowCamera(deltaTime): the mode is stopped when its vehicle is
\* no longer registered (the camera pose is not part of the model)
updateFollowCamera_keep(app) == app
updateFollowCamera(app) ==
  IF ~app.e.followMode.active \/ app.e.followMode.vehicleId = Null THEN app
  ELSE IF app.e.followMode.vehicleId \notin DOMAIN app.m.vehicles
       THEN stopFollowMode(app)
       ELSE app

\* updateFPVCamera(deltaTime)
updateFPVCamera(app) ==
  IF ~app.e.fpvMode.active \/ app.e.fpvMode.vehicleId = Null THEN app
  ELSE IF app.e.fpvMode.vehicleId \notin DOMAIN app.m.vehicles
       THEN stopFPVMode(app)
       ELSE app

\* The Experience with its services: l is the life cycle state, st the API
\* service with the bus and the application, rendered tells whether a tick
\* reached its updates and advanced whether vehicleManager.update changed a
\* vehicle
Site == [l |-> life, st |-> Service, rendered |-> FALSE, advanced |-> FALSE]

\* tick(): returns when the loop is not running; otherwise requests the
\* next frame, and unless paused updates the cameras and the vehicles
tick(x, deltaTime) ==
  IF ~x.l.isRunning THEN [x EXCEPT !.l.frame = FALSE]
  ELSE IF x.l.isPaused THEN [x EXCEPT !.l.frame = TRUE]
  ELSE CHOOSE left \in
         {[x EXCEPT !.l.frame = TRUE,
                    !.st.w.app = [app1 EXCEPT !.m = update(@, deltaTime)],
                    !.rendered = TRUE,
                    !.advanced = update(app1.m, deltaTime).vehicles
                                   # app1.m.vehicles] :
            app1 \in {updateFPVCamera(updateFollowCamera(x.st.w.app))}} : TRUE

\* start()
start(x) ==
  IF x.l.isRunning THEN x
  ELSE tick([x EXCEPT !.l.isRunning = TRUE], 0)

\* pause() / resume()
pause(x) == [x EXCEPT !.l.isPaused = TRUE]
resume(x) == [x EXCEPT !.l.isPaused = FALSE]

\* EventBus.clear()
clear(b) == [b EXCEPT !.listeners = [e \in Events |-> <<>>]]

\* VehicleManager.dispose()
managerDispose(m) ==
  [m EXCEPT !.vehicles = EmptyMap,
            !.scene = @ \ {MeshOf(id) : id \in DOMAIN m.vehicles}]

\* setupEventListeners(): the listeners of 'vehicle:update',
\* 'connection:status' and 'vehicles:count'
setupEventListeners(b) ==
  on(on(on(b, "vehicle:update", [cb |-> "experience", once |-> FALSE]),
        "connection:status", [cb |-> "log", once |-> FALSE]),
     "vehicles:count", [cb |-> "experience", once |-> FALSE])

\* connectDataSource(): the mine data and initialize() of the API service
connectDataSource(x, paths, pathSpeeds) ==
  [x EXCEPT !.st = initialize(setMineData(@, paths, pathSpeeds), pathSpeeds)]

\* dispose() without the trail pool: the loop flag, disconnect() of the
\* WebSocket service (never connected: it only emits the status) and of
\* the API service, the vehicles and the listeners; the optional chains skip what
\* initSubsystems has not created yet
experienceDispose(x) ==
  IF ~x.l.subsystems
  THEN [x EXCEPT !.l.isRunning = FALSE, !.l.disposed = TRUE,
                 !.st.w.bus = clear(@)]
  ELSE CHOOSE left \in
         {[x EXCEPT !.l.isRunning = FALSE, !.l.disposed = TRUE,
                    !.st = [st1 EXCEPT !.w.app.m = managerDispose(@),
                                       !.w.bus = clear(@)]] :
            st1 \in {apiDisconnect(
                      [x.st EXCEPT !.w = apiEmit(x.st.s, @, "connection:status",
                                                 Some("disconnected"))])}} : TRUE

\* a step of the life cycle that leaves x; lifeCall records whether a tick
\* reached its updates, whether it changed a vehicle, and the modes whose
\* vehicle was not registered when it began
LifeDid(op, left) ==
  \E x \in {left} :
  /\ life' = x.l
  /\ lifeCall' = [op |-> op, rendered |-> x.rendered,
                  advanced |-> x.advanced,
                  lost |-> {mode \in {"followMode", "fpvMode"} :
                              /\ experience[mode].active
                              /\ experience[mode].vehicleId \notin DOMAIN vehicles}]
  /\ api' = x.st.s
  /\ bus' = x.st.w.bus
  /\ vehicles' = x.st.w.app.m.vehicles
  /\ selectedVehicleId' = x.st.w.app.m.selectedVehicleId
  /\ managerVolume' = x.st.w.app.m.drivableVolume
  /\ trailsEnabled' = x.st.w.app.m.trailsEnabled
  /\ scene' = x.st.w.app.m.scene
  /\ experience' = x.st.w.app.e
  /\ UNCHANGED <<query, soloVars, mgrCall, expCall, wsVars, busCall, apiCall>>

\* ConfigLoader.load settles: initCore, initSubsystems, then loadAssets is
\* awaited; or the load is rejected and init() catches the error
ConfigLoaded ==
  /\ life.phase = "config"
  /\ LifeDid("config", [Site EXCEPT !.l.phase = "assets",
                                    !.l.subsystems = TRUE,
                                    !.st.w.bus = setupEventListeners(@)])
  /\ UNCHANGED <<poolVars, volVars>>
ConfigFailed ==
  /\ life.phase = "config"
  /\ LifeDid("configFailed", [Site EXCEPT !.l.phase = "failed"])
  /\ UNCHANGED <<poolVars, volVars>>
\* loadAssets settles: the drivable volume, connectDataSource(), start()
AssetsLoaded ==
  \E paths \in TunnelPaths, pathSpeeds \in PathSpeeds :
    /\ life.phase = "assets"
    /\ LifeDid("assets",
               start(connectDataSource(
                 [Site EXCEPT !.l.phase = "done",
                              !.st.w.app.m = setDrivableVolume(@, TRUE)],
                 paths, pathSpeeds)))
    /\ generateFromMineModel(Some(MineModel))
    /\ UNCHANGED poolVars
AssetsFailed ==
  /\ life.phase = "assets"
  /\ LifeDid("assetsFailed", [Site EXCEPT !.l.phase = "failed"])
  /\ UNCHANGED <<poolVars, volVars>>
\* the callback of requestAnimationFrame
Frame ==
  \E deltaTime \in {1, MaxDt} :
    /\ life.frame
    /\ life.frames < MaxFrames
    /\ LifeDid("tick", tick([Site EXCEPT !.l.frames = @ + 1], deltaTime))
    /\ UNCHANGED <<poolVars, volVars>>
\* 'visibilitychange'
Pause ==
  /\ ~life.isPaused
  /\ LifeDid("pause", pause(Site))
  /\ UNCHANGED <<poolVars, volVars>>
Resume ==
  /\ life.isPaused
  /\ LifeDid("resume", resume(Site))
  /\ UNCHANGED <<poolVars, volVars>>
\* 'beforeunload': dispose(), with trailPool?.dispose()
Dispose ==
  /\ ~life.disposed
  /\ LifeDid("dispose", experienceDispose(Site))
  /\ IF life.subsystems
     THEN /\ geometryPool' = <<>>
          /\ activeTrails' = EmptyMap
          /\ poolCall' = [op |-> "dispose", id |-> Null, ret |-> None]
          /\ UNCHANGED <<initialSize, maxSize>>
     ELSE UNCHANGED poolVars
  /\ UNCHANGED volVars

(***************************************************************************)
(* MathUtils containment helpers, and the containment queries              *)
(***************************************************************************)

\* Raycaster.intersectObject(volumeMesh) from point along +Y: the number of
\* faces of the closed mesh (a box) the ray crosses
RayUpCount(mesh, p) ==
  IF mesh.box.min[1] <= p[1] /\ p[1] <= mesh.box.max[1]
     /\ mesh.box.min[3] <= p[3] /\ p[3] <= mesh.box.max[3]
  THEN IF p[2] < mesh.box.min[2] THEN 2
       ELSE IF p[2] <= mesh.box.max[2] THEN 1
       ELSE 0
  ELSE 0

\* isInsideVolume(point, volumeMesh); both arguments nullable
isInsideVolume(point, volumeMesh) ==
  IF point = None \/ volumeMesh = None
  THEN FALSE
  ELSE RayUpCount(volumeMesh[1], point[1]) % 2 = 1

\* constrainToVolume(newPosition, lastValidPosition, volumeMesh)
constrainToVolume(newPosition, lastValidPosition, volumeMesh) ==
  IF volumeMesh = None
  THEN [position |-> newPosition, isValid |-> TRUE]
  ELSE IF isInsideVolume(Some(newPosition), volumeMesh)
  THEN [position |-> newPosition, isValid |-> TRUE]
  ELSE IF lastValidPosition # None
  THEN [position |-> lastValidPosition[1], isValid |-> FALSE]
  ELSE [position |-> newPosition, isValid |-> FALSE]

\* isInsideVolumeOptimized(point, volumeMesh, boundingBox)
isInsideVolumeOptimized(point, volumeMesh, boundingBox) ==
  IF boundingBox # None /\ ~containsPoint(boundingBox[1], point)
  THEN FALSE
  ELSE isInsideVolume(Some(point), volumeMesh)

\* points handed to the queries: in the mine, above it, and far away
ProbePoints ==
  {Vec(x, y, z) : x \in {32, 96, -400}, y \in {8, 40}, z \in {32, 900}}

\* query records the last query: the function, its arguments (hasVolume
\* tells whether the volume argument or field was non-null), the drivable
\* volume's readiness and last call when it was made, and its answer
Asked(fn, point, hasVolume, answer, position) ==
  /\ query' = [fn |-> fn, point |-> point, hasVolume |-> hasVolume,
               ready |-> volume.isReady, after |-> volumeCall,
               answer |-> answer, position |-> position]
  /\ UNCHANGED <<poolVars, volVars, mgrVars, soloVars, expVars, wsVars, busVars, apiVars, lifeVars>>

NoQuery ==
  [fn |-> "none", point |-> Origin, hasVolume |-> FALSE,
   ready |-> FALSE, after |-> "new",
   answer |-> FALSE, position |-> Origin]

QueryIsPointInside ==
  \E p \in ProbePoints : Asked("isPointInside", p, TRUE, isPointInside(p), p)
QueryIsInsideTunnel ==
  \E p \in ProbePoints : Asked("isInsideTunnel", p, TRUE, isInsideTunnel(p), p)
QueryIsPositionValid ==
  \E p \in ProbePoints, vol \in BOOLEAN :
    Asked("isPositionValid", p, vol,
          isPositionValid([drivableVolume |-> vol], p), p)
QueryIsInsideVolume ==
  \E p \in ProbePoints, mesh \in {None, Some(MineModel)} :
    Asked("isInsideVolume", p, mesh # None, isInsideVolume(Some(p), mesh), p)
QueryIsInsideVolumeOptimized ==
  \E p \in ProbePoints, mesh \in {None, Some(MineModel)},
     box \in {None, Some(MineModel.box)} :
    Asked("isInsideVolumeOptimized", p, mesh # None,
          isInsideVolumeOptimized(p, mesh, box), p)
QueryConstrainToVolume ==
  \E p \in ProbePoints, mesh \in {None, Some(MineModel)},
     last \in {None, Some(PInside)} :
    LET r == constrainToVolume(p, last, mesh)
    IN Asked("constrainToVolume", p, mesh # None, r.isValid, r.position)

(***************************************************************************)
(* A Vehicle on its own: constructed (which places it with setPosition and *)
(* setHeading), then driven through setTargetPosition, setTargetHeading    *)
(* and update.  soloCall records the last call with its arguments; for a   *)
(* pair of ticks update(d1), update(d2) it also holds what the single tick *)
(* update(d1 + d2) would have left.                                        *)
(***************************************************************************)

\* x coordinates (half world units) and headings handed to the vehicle
SoloXs == Representable({20, 40, 51, -2000})
SoloPoints == {Vec(x, 0, 20) : x \in SoloXs}
SoloHeadings == {0, 10, 350}

SoloOptions(position, heading) ==
  [type |-> "dump_truck", initialPosition |-> position,
   initialHeading |-> heading, speed |-> 0, status |-> "idle",
   maxTrailLength |-> 0, drivableVolume |-> FALSE]

\* most update() calls made on the vehicle
MaxTicks == 2

SoloDid(op, position, heading, d1, d2, v) ==
  /\ soloCall' = [op |-> op, position |-> position, heading |-> heading,
                  d1 |-> d1, d2 |-> d2,
                  ticks |-> soloCall.ticks + (IF op = "update" THEN 1
                                              ELSE IF op = "update2" THEN 2
                                              ELSE 0),
                  whole |-> IF op = "update2"
                            THEN Some(vehicleUpdate(solo, d1 + d2))
                            ELSE None]
  /\ solo' = v
  /\ UNCHANGED <<poolVars, volVars, mgrVars, query, expVars, wsVars, busVars, apiVars, lifeVars>>

SoloConstructor(position, heading) ==
  /\ solo = VehicleConstructor(SoloOptions(position, heading))
  /\ soloCall = [op |-> "new", position |-> position, heading |-> heading,
                 d1 |-> 0, d2 |-> 0, ticks |-> 0, whole |-> None]

SoloSetTargetPosition ==
  \E p \in SoloPoints :
    SoloDid("setTargetPosition", p, 0, 0, 0, setTargetPosition(solo, p))
SoloSetTargetHeading ==
  \E h \in SoloHeadings :
    SoloDid("setTargetHeading", Origin, h, 0, 0, setTargetHeading(solo, h))
SoloUpdate ==
  /\ soloCall.ticks + 1 <= MaxTicks
  /\ \E dt \in 0..MaxDt :
    SoloDid("update", Origin, 0, dt, 0, vehicleUpdate(solo, dt))
SoloTwoUpdates ==
  /\ soloCall.ticks + 2 <= MaxTicks
  /\ \E d1 \in 0..MaxDt, d2 \in 0..MaxDt :
    SoloDid("update2", Origin, 0, d1, d2,
            vehicleUpdate(vehicleUpdate(solo, d1), d2))

(***************************************************************************)
(* A Vehicle's own trail: a vehicle constructed with a small maxTrailLength *)
(* and driven through enableTrail, disableTrail, clearTrail,               *)
(* setTargetPosition and update.                                           *)
(***************************************************************************)

\* largest options.maxTrailLength handed to the constructor
MaxWindow == 2

WindowOptions(position, maxTrailLength) ==
  [type |-> "dump_truck", initialPosition |-> position,
   initialHeading |-> 0, speed |-> 0, status |-> "idle",
   maxTrailLength |-> maxTrailLength, drivableVolume |-> FALSE]

\* soloCall records the call, its argument and the trail the call found
WindowDid(op, position, deltaTime, v) ==
  /\ soloCall' = [op |-> op, position |-> position, deltaTime |-> deltaTime,
                  trailBefore |-> solo.trailPositions]
  /\ solo' = v
  /\ UNCHANGED <<volVars, mgrVars, query, expVars, wsVars, busVars, apiVars, lifeVars>>

WindowConstructor(position, maxTrailLength) ==
  /\ solo = VehicleConstructor(WindowOptions(position, maxTrailLength))
  /\ soloCall = [op |-> "new", position |-> position, deltaTime |-> 0,
                 trailBefore |-> <<>>]

WindowEnableTrail ==
  /\ WindowDid("enableTrail", Origin, 0, enableTrail(solo))
  /\ UNCHANGED poolVars
WindowDisableTrail ==
  /\ WindowDid("disableTrail", Origin, 0, disableTrail(solo))
  /\ UNCHANGED poolVars
WindowClearTrail ==
  /\ WindowDid("clearTrail", Origin, 0, clearTrail(solo))
  /\ UNCHANGED poolVars
WindowSetTargetPosition ==
  /\ \E p \in SoloPoints :
       WindowDid("setTargetPosition", p, 0, setTargetPosition(solo, p))
  /\ UNCHANGED poolVars
WindowUpdate ==
  /\ \E dt \in {0, MaxDt} : WindowDid("update", Origin, dt, vehicleUpdate(solo, dt))
  /\ UNCHANGED poolVars

(***************************************************************************)
(* Specifications                                                          *)
(***************************************************************************)

\* the trail pool under any constructor options
PoolInit ==
  /\ \E optInitial \in 0..MaxOptSize, optMax \in 0..MaxOptSize :
       PoolConstructor(optInitial, optMax)
  /\ VolumeConstructor
  /\ ManagerConstructor
  /\ ExperienceConstructor
  /\ ServiceConstructor(0, TRUE)
  /\ BusConstructor
  /\ APIConstructor(FALSE)
  /\ LifeConstructor
  /\ query = NoQuery
  /\ SoloConstructor(Origin, 0)
PoolNext == PoolAcquire \/ PoolRelease \/ PoolUpdateTrail \/ PoolClearAll
SpecPool == PoolInit /\ [][PoolNext]_vars

\* the registry and the selection: telemetry, removal, select, deselect
\* (the trail pool is not exercised here and is built with a single slot)
MgrInit ==
  /\ PoolConstructor(1, 1)
  /\ VolumeConstructor
  /\ ManagerConstructor
  /\ ExperienceConstructor
  /\ ServiceConstructor(0, TRUE)
  /\ BusConstructor
  /\ APIConstructor(FALSE)
  /\ LifeConstructor
  /\ query = NoQuery
  /\ SoloConstructor(Origin, 0)
SelectNext ==
  UpdateVehicle \/ RemoveVehicle \/ SelectVehicle \/ DeselectVehicle
SpecSelect == MgrInit /\ [][SelectNext]_vars

\* one vehicle's motion: telemetry, render ticks and the drivable volume
MotionNext ==
  \/ MotionUpdateVehicle \/ MotionRemoveVehicle \/ Update
  \/ SetDrivableVolume \/ VolumeGenerate \/ VolumeDispose
SpecMotion == MgrInit /\ [][MotionNext]_vars

\* the trails: telemetry, ticks, removal and selection with the trail switch
TrailNext ==
  \/ TrailUpdateVehicle \/ RemoveVehicle \/ SelectVehicle
  \/ ToggleTrails \/ ClearAllTrails \/ TrailTick
SpecTrail == MgrInit /\ [][TrailNext]_vars

\* one vehicle under well-formed and malformed telemetry, and render ticks
MalformedNext ==
  WellFormedUpdateVehicle \/ MalformedUpdateVehicle \/ Update
SpecMalformed == MgrInit /\ [][MalformedNext]_vars

\* the event bus with the listener of the Experience and other handlers
BusNext == BusOn \/ BusOnce \/ BusOff \/ BusEmit
SpecBus == MgrInit /\ [][BusNext]_vars

\* the API service feeding the application through the event bus, on which
\* the listener of the Experience and other handlers are registered
FeedInit ==
  /\ PoolConstructor(1, 1)
  /\ VolumeConstructor
  /\ ManagerConstructor
  /\ ExperienceConstructor
  /\ ServiceConstructor(0, TRUE)
  /\ BusConstructor
  /\ APIConstructor(TRUE)
  /\ LifeConstructor
  /\ query = NoQuery
  /\ SoloConstructor(Origin, 0)
FeedNext ==
  BusOn \/ ApiSetMineData \/ ApiInitialize \/ ApiTick
SpecFeed == FeedInit /\ [][FeedNext]_vars

\* the API service on its own (no event bus handed over)
ApiNext ==
  \/ ApiSetMineData \/ ApiInitialize \/ ApiTick \/ ApiDisconnect
  \/ ApiSetFollowedVehicle \/ ApiSetSelectedVehicle
  \/ ApiSetVisibleVehicles
SpecApi == MgrInit /\ [][ApiNext]_vars

\* the drivable volume's life cycle and the containment queries
QInit == MgrInit
QNext ==
  \/ VolumeGenerate \/ VolumeLoad \/ VolumeDispose
  \/ QueryIsPointInside \/ QueryIsInsideTunnel \/ QueryIsPositionValid
  \/ QueryIsInsideVolume \/ QueryIsInsideVolumeOptimized
  \/ QueryConstrainToVolume
SpecQ == QInit /\ [][QNext]_vars

\* one vehicle driven through its own methods
SoloInit ==
  /\ PoolConstructor(1, 1)
  /\ VolumeConstructor
  /\ ManagerConstructor
  /\ ExperienceConstructor
  /\ ServiceConstructor(0, TRUE)
  /\ BusConstructor
  /\ APIConstructor(FALSE)
  /\ LifeConstructor
  /\ query = NoQuery
  /\ \E p \in SoloPoints, h \in SoloHeadings : SoloConstructor(p, h)
SoloNext ==
  \/ SoloSetTargetPosition \/ SoloSetTargetHeading
  \/ SoloUpdate \/ SoloTwoUpdates
SpecSolo == SoloInit /\ [][SoloNext]_vars

\* one vehicle's own trail under a small maxTrailLength
WindowInit ==
  /\ PoolConstructor(1, 1)
  /\ VolumeConstructor
  /\ ManagerConstructor
  /\ ExperienceConstructor
  /\ ServiceConstructor(0, TRUE)
  /\ BusConstructor
  /\ APIConstructor(FALSE)
  /\ LifeConstructor
  /\ query = NoQuery
  /\ \E p \in SoloPoints, n \in 1..MaxWindow : WindowConstructor(p, n)
WindowNext ==
  \/ WindowEnableTrail \/ WindowDisableTrail \/ WindowClearTrail
  \/ WindowSetTargetPosition \/ WindowUpdate
SpecWindow == WindowInit /\ [][WindowNext]_vars

\* the trail meshes: one vehicle's own trail beside the trail pool
MeshesInit ==
  /\ PoolConstructor(1, 1)
  /\ VolumeConstructor
  /\ ManagerConstructor
  /\ ExperienceConstructor
  /\ ServiceConstructor(0, TRUE)
  /\ BusConstructor
  /\ APIConstructor(FALSE)
  /\ LifeConstructor
  /\ query = NoQuery
  /\ WindowConstructor(Vec(20, 0, 20), MaxWindow)
MeshesNext ==
  \/ WindowNext
  \/ MeshesAcquire \/ MeshesRelease \/ MeshesUpdateTrail \/ PoolClearAll
SpecMeshes == MeshesInit /\ [][MeshesNext]_vars

\* the filters of the application: data events, removal, type / status /
\* group filters and the level selection
FilterNext ==
  \/ AppVehicleUpdate \/ AppRemoveVehicle
  \/ AppVehiclesFilter \/ AppVehiclesFilterReset \/ AppLevelSelect
SpecFilter == MgrInit /\ [][FilterNext]_vars

\* the camera modes of the application: follow and first-person view
ModesNext ==
  \/ AppVehicleUpdate \/ AppRemoveVehicle
  \/ AppStartFollowMode \/ AppStopFollowMode
  \/ AppStartFPVMode \/ AppStopFPVMode
SpecModes == MgrInit /\ [][ModesNext]_vars

\* telemetry of the vehicle the cameras are attached to
CameraVehicleUpdate ==
  \E id \in MotionIds, data \in AppRecords :
    Handled("vehicle:update", id, Some(data), onVehicleUpdate(App, id, data))
\* the UI: telemetry, removals, selection and the buttons of the UI
UINext ==
  \/ CameraVehicleUpdate \/ AppRemoveVehicle
  \/ UISelectVehicle \/ UIDeselectVehicle
  \/ UIToggleFollowMode \/ UIStartFPVMode \/ UIStopFPVMode
  \/ UICameraReset
SpecUI == MgrInit /\ [][UINext]_vars

\* the cameras: telemetry, removals, the follow and first-person modes and
\* the render loop of a started Experience
CameraInit ==
  /\ PoolConstructor(1, 1)
  /\ VolumeConstructor
  /\ ManagerConstructor
  /\ ExperienceConstructor
  /\ ServiceConstructor(0, TRUE)
  /\ BusConstructor
  /\ APIConstructor(FALSE)
  /\ life = Started
  /\ lifeCall = [op |-> "start", rendered |-> FALSE, advanced |-> FALSE,
                 lost |-> {}]
  /\ query = NoQuery
  /\ SoloConstructor(Origin, 0)
CameraNext ==
  \/ CameraVehicleUpdate \/ AppRemoveVehicle
  \/ AppStartFollowMode \/ AppStopFollowMode
  \/ AppStartFPVMode \/ AppStopFPVMode
  \/ Frame \/ Pause \/ Resume
SpecCamera == CameraInit /\ [][CameraNext]_vars

\* the WebSocket service: connect(), the socket's callbacks and the
\* reconnect timer.  connect() is called when the data source is connected,
\* a socket that does not open closes, and a pending timeout fires.
SocketInit ==
  /\ PoolConstructor(1, 1)
  /\ VolumeConstructor
  /\ ManagerConstructor
  /\ ExperienceConstructor
  /\ query = NoQuery
  /\ SoloConstructor(Origin, 0)
  /\ \E n \in 0..MaxAttemptsOpt, simulate \in BOOLEAN :
       ServiceConstructor(n, simulate)
  /\ BusConstructor
  /\ APIConstructor(FALSE)
  /\ LifeConstructor
SocketNext ==
  \/ ServiceConnect \/ SocketOpen \/ SocketFail \/ SocketDrop
  \/ ReconnectTimeout \/ SocketMessage
SpecSocket ==
  /\ SocketInit /\ [][SocketNext]_vars
  /\ WF_vars(ServiceConnect) /\ WF_vars(SocketFail)
  /\ WF_vars(ReconnectTimeout)

\* the life cycle of the Experience: the awaited loads of init(), the
\* animation frames, the master interval of the API service, the page's
\* visibility changes and its unload
LifeNext ==
  \/ ConfigLoaded \/ ConfigFailed \/ AssetsLoaded \/ AssetsFailed
  \/ Frame \/ Pause \/ Resume \/ Dispose \/ ApiTick
SpecLife == FeedInit /\ [][LifeNext]_vars

\* the WebSocket service with disconnect()
DisconnectNext ==
  \/ ServiceConnect \/ SocketOpen \/ SocketFail \/ SocketDrop
  \/ ReconnectTimeout \/ SocketMessage
  \/ ServiceDisconnect \/ SocketClosed
SpecDisconnect == SocketInit /\ [][DisconnectNext]_vars

(***************************************************************************)
(* Properties                                                              *)
(***************************************************************************)

Selected == {id \in DOMAIN vehicles : vehicles[id].isSelected}
HighlightMaterial == [emissive |-> "0x00aaff", emissiveIntensity |-> 3]

\* C1 (SpecSelect): over selectVehicle, deselectVehicle, removeVehicle and
\* updateVehicle calls at most one registered vehicle has isSelected = true,
\* and after selectVehicle(B) with B registered while another vehicle A is
\* selected, A.isSelected = false, B.isSelected = true and
\* selectedVehicleId = B.
C1_SelectionExclusive ==
  /\ Cardinality(Selected) <= 1
  /\ (mgrCall.op = "selectVehicle" /\ mgrCall.known)
       => /\ selectedVehicleId = mgrCall.id
          /\ Selected = {mgrCall.id}

\* C1 witness: selectVehicle("v2") was called while "v1" was selected, both
\* registered; "v2" now carries the selection and the highlight.
C1_Witness ==
  /\ mgrCall.op = "selectVehicle" /\ mgrCall.id = "v2"
  /\ mgrCall.selectedBefore = "v1"
  /\ DOMAIN vehicles = {"v1", "v2"}
  /\ ~vehicles["v1"].isSelected
  /\ vehicles["v2"].isSelected
  /\ vehicles["v2"].material = HighlightMaterial
  /\ selectedVehicleId = "v2"

\* C2 (SpecSelect): selectVehicle(id) with an id that is not in the registry
\* is a no-op: selectedVehicleId, every vehicle's isSelected flag and every
\* vehicle's highlight are as before the call, and nothing is thrown.
C2_UnknownSelectIsNoOp ==
  [][(mgrCall'.op = "selectVehicle" /\ ~mgrCall'.known)
       => /\ vehicles' = vehicles
          /\ selectedVehicleId' = selectedVehicleId
          /\ ~mgrCall'.threw]_vars

\* C3 (SpecPool): for any constructor options the pool's slot count never
\* exceeds maxSize, and an acquire that returns null (every slot in use, pool
\* at maxSize) found the pool full.
C3_PoolWithinMaxSize ==
  /\ Len(geometryPool) <= maxSize
  /\ (poolCall.op = "acquire" /\ poolCall.ret = None)
       => \A i \in DOMAIN geometryPool : geometryPool[i].inUse

TrailCount == Cardinality(DOMAIN activeTrails)

\* C4 (SpecPool): acquire(id) for an id that already holds a trail (acquired
\* before and not released since) returns that same trail record and leaves
\* the pool and activeTrails untouched, while the acquire that gave id its
\* trail raised the number of in-use slots and activeTrails.size by exactly
\* one: two acquires add one, not two.
C4_AcquireIdempotent ==
  [][poolCall'.op = "acquire"
       => IF poolCall'.id \in DOMAIN activeTrails
          THEN /\ poolCall'.ret = Some(activeTrails[poolCall'.id])
               /\ geometryPool' = geometryPool
               /\ activeTrails' = activeTrails
          ELSE poolCall'.ret # None
                 => /\ InUseCount' = InUseCount + 1
                    /\ TrailCount' = TrailCount + 1
                    /\ activeTrails'[poolCall'.id] = poolCall'.ret[1]]_vars

\* C4 witness: the last call was an acquire that returned a record which
\* already had a visible trail, so the id held it before the call.
C4_Witness ==
  /\ poolCall.op = "acquire"
  /\ poolCall.ret # None
  /\ poolCall.ret[1].visible
  /\ poolCall.ret[1].positions >= 2
  /\ activeTrails[poolCall.id] = poolCall.ret[1]

Owners(i) == {id \in DOMAIN activeTrails : activeTrails[id].entry = i}

\* C5 (SpecPool): every pool slot is either free (inUse = false, id = null,
\* referenced by no activeTrails record) or owned by exactly one vehicle id
\* (inUse = true, id = that id, referenced by exactly that id's record), so
\* the number of in-use slots equals activeTrails.size.
C5_SlotFreeOrOwned ==
  /\ \A i \in DOMAIN geometryPool :
       IF geometryPool[i].inUse
       THEN /\ geometryPool[i].id # Null
            /\ Owners(i) = {geometryPool[i].id}
       ELSE /\ geometryPool[i].id = Null
            /\ Owners(i) = {}
  /\ \A id \in DOMAIN activeTrails :
       activeTrails[id].entry \in DOMAIN geometryPool
  /\ InUseCount = TrailCount

\* C5 witness: a release has just freed a slot while two other slots are
\* owned by two other vehicles.
C5_Witness ==
  /\ poolCall.op = "release" /\ poolCall.ret # None
  /\ InUseCount = 2
  /\ \E i \in DOMAIN geometryPool : ~geometryPool[i].inUse

\* C6 (SpecPool): release(id) for an id that holds a slot marks the slot
\* free, empties the record's points and removes id from activeTrails while
\* the slot and its geometry stay in the pool, so that the acquire that
\* follows takes a free slot without growing the pool; release(id) for an id
\* that holds no slot changes nothing.
C6_ReleaseFreesSlot ==
  [][/\ poolCall'.op = "release"
          => IF poolCall'.id \in DOMAIN activeTrails
             THEN LET e == activeTrails[poolCall'.id].entry
                  IN /\ geometryPool' =
                          [geometryPool EXCEPT ![e].inUse = FALSE,
                                               ![e].id = Null]
                     /\ poolCall'.id \notin DOMAIN activeTrails'
                     /\ \A id \in DOMAIN activeTrails' :
                          activeTrails'[id] = activeTrails[id]
                     /\ poolCall'.ret # None
                     /\ poolCall'.ret[1].positions = 0
             ELSE /\ geometryPool' = geometryPool
                  /\ activeTrails' = activeTrails
     /\ (poolCall.op = "release" /\ poolCall.ret # None
           /\ poolCall'.op = "acquire")
          => /\ Len(geometryPool') = Len(geometryPool)
             /\ poolCall'.ret # None
             /\ poolCall'.id \notin DOMAIN activeTrails
                  => ~geometryPool[poolCall'.ret[1].entry].inUse]_vars

\* C6 witness: an acquire has just handed out, with an empty record, a slot
\* whose tube was built for an earlier occupant.
C6_Witness ==
  /\ poolCall.op = "acquire"
  /\ poolCall.ret # None
  /\ poolCall.ret[1].positions = 0
  /\ ~poolCall.ret[1].visible
  /\ ~geometryPool[poolCall.ret[1].entry].geometry.dummy
  /\ geometryPool[poolCall.ret[1].entry].id = poolCall.id

\* the vehicle has a ready drivable volume set
Contained(v) == v.drivableVolume /\ volume.isReady

\* C7 (SpecMotion): with a ready drivable volume set on a vehicle, an
\* update(deltaTime) never takes its rendered position (currentPosition and
\* mesh.position) from inside the volume to outside it: a step that would
\* leave the volume is not applied.
C7_TickStaysInsideVolume ==
  [][mgrCall'.op = "update"
       => \A id \in DOMAIN vehicles :
            (Contained(vehicles[id])
               /\ isPointInside(vehicles[id].currentPosition))
              => /\ isPointInside(vehicles'[id].currentPosition)
                 /\ isPointInside(vehicles'[id].meshPosition)]_vars

\* C8 (SpecMotion): for a known id, updateVehicle(record) sets the vehicle's
\* targetPosition, targetHeading, speed and status to exactly the record's
\* values, whether or not the position is inside the drivable volume and
\* whether or not the volume is ready.
C8_TargetAcceptedVerbatim ==
  (mgrCall.op = "updateVehicle" /\ mgrCall.known)
    => LET v == vehicles[mgrCall.id]
           data == mgrCall.data[1]
       IN /\ v.targetPosition = data.position
          /\ v.targetHeading = data.heading
          /\ v.speed = data.speed
          /\ v.status = data.status

\* C8 witness: a record whose position lies outside the ready volume has
\* been applied to a registered vehicle that has the volume set.
C8_Witness ==
  /\ mgrCall.op = "updateVehicle" /\ mgrCall.known
  /\ Contained(vehicles[mgrCall.id])
  /\ ~isPointInside(mgrCall.data[1].position)
  /\ vehicles[mgrCall.id].targetPosition = mgrCall.data[1].position
  /\ vehicles[mgrCall.id].currentPosition # mgrCall.data[1].position

\* C9 (SpecQ): while the drivable volume is not ready (never generated,
\* generateFromMineModel called with no model, loadVolumeMesh failed, or
\* disposed), isPointInside(p) and isInsideTunnel(p) are true for every
\* point p, and every such query made while it was not ready answered true.
C9_PermissiveUntilReady ==
  /\ ~volume.isReady
       => \A p \in ProbePoints : isPointInside(p) /\ isInsideTunnel(p)
  /\ (query.fn \in {"isPointInside", "isInsideTunnel"} /\ ~query.ready)
       => query.answer

FarPoint == Vec(-400, 40, 900)

\* C9 witness: after dispose() of a volume, isPointInside answered true for
\* a point far outside the mine's bounding box.
C9_Witness ==
  /\ ~volume.isReady
  /\ query.fn = "isPointInside"
  /\ query.after = "dispose" /\ ~query.ready
  /\ query.point = FarPoint
  /\ ~containsPoint(MineModel.box, query.point)
  /\ query.answer

\* C10 (SpecQ): every containment query made with a missing volume answers
\* inside / valid: Vehicle.isPositionValid with drivableVolume = null,
\* isInsideVolume and isInsideVolumeOptimized with volumeMesh = null, and
\* constrainToVolume with volumeMesh = null.
C10_MissingVolumeIsPermissive ==
  (query.fn \in {"isPositionValid", "isInsideVolume",
                 "isInsideVolumeOptimized", "constrainToVolume"}
     /\ ~query.hasVolume)
    => query.answer

\* C11 (SpecMotion): updateVehicle(record) for an id that is not registered
\* registers a vehicle whose currentPosition, targetPosition and mesh
\* position all equal the record's position and whose currentHeading and
\* targetHeading equal the record's heading, in the state the call leaves,
\* before any update() tick.
C11_FirstSamplePlacedImmediately ==
  (mgrCall.op = "updateVehicle" /\ ~mgrCall.known)
    => /\ mgrCall.id \in DOMAIN vehicles
       /\ LET v == vehicles[mgrCall.id]
              data == mgrCall.data[1]
          IN /\ v.currentPosition = data.position
             /\ v.targetPosition = data.position
             /\ v.meshPosition = data.position
             /\ v.currentHeading = data.heading
             /\ v.targetHeading = data.heading

\* C11 witness: a first record whose position lies outside the ready volume
\* has just created the vehicle there, heading 350.
C11_Witness ==
  /\ mgrCall.op = "updateVehicle" /\ ~mgrCall.known
  /\ mgrCall.data[1].position = POutside
  /\ mgrCall.data[1].heading = 350
  /\ volume.isReady /\ managerVolume
  /\ vehicles[mgrCall.id].meshPosition = POutside
  /\ vehicles[mgrCall.id].currentHeading = 350

\* the fields of a Vehicle that telemetry for a registered id does not write
Retained(v) ==
  [type |-> v.type, currentPosition |-> v.currentPosition,
   meshPosition |-> v.meshPosition, currentHeading |-> v.currentHeading,
   meshRotationY |-> v.meshRotationY,
   lastValidPosition |-> v.lastValidPosition,
   isSelected |-> v.isSelected, material |-> v.material,
   trailEnabled |-> v.trailEnabled, trailPositions |-> v.trailPositions]

\* C12 (SpecSelect): a key enters the registry only through updateVehicle
\* for an id that is not registered, which adds exactly that id; every
\* updateVehicle for a registered id leaves the registry's key set unchanged
\* and keeps the Vehicle it found (its type, rendered position and heading,
\* selection flag and highlight are those it had: the entity is not built
\* anew from the record).
C12_CreatedOnceThenMutated ==
  [][/\ DOMAIN vehicles' \subseteq DOMAIN vehicles
          \/ (mgrCall'.op = "updateVehicle" /\ ~mgrCall'.known)
     /\ mgrCall'.op = "updateVehicle"
          => IF mgrCall'.known
             THEN /\ DOMAIN vehicles' = DOMAIN vehicles
                  /\ Retained(vehicles'[mgrCall'.id])
                       = Retained(vehicles[mgrCall'.id])
             ELSE DOMAIN vehicles' = DOMAIN vehicles \cup {mgrCall'.id}]_vars

\* C12 witness: a record with another type and position has been applied to
\* a registered, selected vehicle while a second vehicle is registered; the
\* vehicle is still where it was created, selected, of its first type.
C12_Witness ==
  /\ mgrCall.op = "updateVehicle" /\ mgrCall.known
  /\ DOMAIN vehicles = {"v1", "v2"}
  /\ mgrCall.data[1].type = "loader"
  /\ vehicles[mgrCall.id].type = "dump_truck"
  /\ vehicles[mgrCall.id].isSelected
  /\ vehicles[mgrCall.id].currentPosition # mgrCall.data[1].position
  /\ vehicles[mgrCall.id].targetPosition = mgrCall.data[1].position

\* the rendered transform of a Vehicle, and its telemetry targets
Rendered(v) ==
  [currentPosition |-> v.currentPosition, meshPosition |-> v.meshPosition,
   currentHeading |-> v.currentHeading, meshRotationY |-> v.meshRotationY]
Targets(v) ==
  [targetPosition |-> v.targetPosition, targetHeading |-> v.targetHeading,
   speed |-> v.speed, status |-> v.status]

\* C13 (SpecMotion): updateVehicle for a registered id leaves that vehicle's
\* currentPosition, currentHeading and mesh transform as they were (they
\* move only in update(deltaTime)), and update(deltaTime) leaves every
\* vehicle's targetPosition, targetHeading, speed and status as they were.
C13_TelemetryAndTicksDisjoint ==
  [][/\ (mgrCall'.op = "updateVehicle" /\ mgrCall'.known)
          => Rendered(vehicles'[mgrCall'.id]) = Rendered(vehicles[mgrCall'.id])
     /\ mgrCall'.op = "update"
          => /\ DOMAIN vehicles' = DOMAIN vehicles
             /\ \A id \in DOMAIN vehicles :
                  Targets(vehicles'[id]) = Targets(vehicles[id])]_vars

\* C13 witness: a record has been applied to a vehicle that ticks had
\* already moved part of the way to an earlier target; it is still at that
\* in-between place, with the new target.
C13_Witness ==
  /\ mgrCall.op = "updateVehicle" /\ mgrCall.known
  /\ vehicles[mgrCall.id].currentPosition \notin {PInside, PInside2, POutside}
  /\ vehicles[mgrCall.id].targetPosition = mgrCall.data[1].position
  /\ vehicles[mgrCall.id].targetHeading # vehicles[mgrCall.id].currentHeading

\* the target fields a telemetry record carries
TargetsOf(data) ==
  [targetPosition |-> data.position, targetHeading |-> data.heading,
   speed |-> data.speed, status |-> data.status]

\* C14 (SpecSelect): every updateVehicle(record) leaves the vehicle of the
\* record's id with the record's targetPosition, targetHeading, speed and
\* status, and no call changes these fields of any other registered vehicle
\* (select, deselect and removal of another id included); hence each
\* vehicle's targets are those of the last record applied for its id,
\* however the records of other ids are interleaved.
C14_LastRecordWins ==
  [][\A id \in DOMAIN vehicles' :
       IF mgrCall'.op = "updateVehicle" /\ mgrCall'.id = id
       THEN Targets(vehicles'[id]) = TargetsOf(mgrCall'.data[1])
       ELSE /\ id \in DOMAIN vehicles
            /\ Targets(vehicles'[id]) = Targets(vehicles[id])]_vars

\* C14 witness: "v2" has just received a record while "v1" keeps the
\* different targets of its own later record.
C14_Witness ==
  /\ mgrCall.op = "updateVehicle" /\ mgrCall.id = "v2" /\ mgrCall.known
  /\ DOMAIN vehicles = {"v1", "v2"}
  /\ vehicles["v1"].targetPosition = POutside
  /\ vehicles["v1"].currentPosition = PInside
  /\ vehicles["v2"].targetPosition = PInside2
  /\ vehicles["v2"].currentPosition = POutside
  /\ Targets(vehicles["v2"]) = TargetsOf(mgrCall.data[1])

Between(a, x, b) == (a <= x /\ x <= b) \/ (b <= x /\ x <= a)
\* the spacing of the representable numbers around x
Ulp(x) == Pow2(Binade(Abs(x), 1, 0))

\* C15 as claimed (SpecSolo): every update(deltaTime), deltaTime >= 0, puts
\* each coordinate of currentPosition between its previous value and the
\* target's (never past the target) and leaves a coordinate that equals the
\* target's unchanged.
C15_NeverOvershoots ==
  [][soloCall'.op = "update"
       => \A i \in 1..3 :
            /\ Between(solo.currentPosition[i], solo'.currentPosition[i],
                       solo.targetPosition[i])
            /\ solo.currentPosition[i] = solo.targetPosition[i]
                 => solo'.currentPosition[i] = solo.currentPosition[i]]_vars

\* C15 amended (SpecSolo): every update(deltaTime), deltaTime >= 0, leaves
\* each coordinate of currentPosition no farther from the target's than it
\* was and leaves a coordinate that equals the target's unchanged; while
\* lerpFactor is below 1 the coordinate stays between its previous value and
\* the target's, and once deltaTime is so long that lerpFactor rounds to 1
\* the coordinate lands on the target up to the rounding of
\* current + (target - current), which may lie beyond the target.  A vehicle
\* created at (10,0,10) and retargeted to (20,0,10) never has x below its
\* previous value or above 20, and keeps y = 0 and z = 10.
C15_StepsTowardsTarget ==
  [][soloCall'.op = "update"
       => LET f == LerpFactor(PositionLerpSpeed, soloCall'.d1)
          IN \A i \in 1..3 :
               LET c == solo.currentPosition[i]
                   t == solo.targetPosition[i]
                   x == solo'.currentPosition[i]
               IN /\ Abs(t - x) <= Abs(t - c)
                  /\ c = t => x = c
                  /\ f.num < f.den => Between(c, x, t)
                  /\ f.num = f.den => 2 * Abs(t - x) <= Ulp(t - c) + Ulp(t)
                  /\ (c \in 20..40 /\ t = 40) => (c <= x /\ x <= 40)]_vars

\* C15 witness: a tick long enough for lerpFactor to round to 1 has taken x
\* from -2000 to 52, one past the target 51.
C15_Witness ==
  /\ soloCall.op = "update" /\ soloCall.ticks = 1
  /\ LerpFactor(PositionLerpSpeed, soloCall.d1).num
       = LerpFactor(PositionLerpSpeed, soloCall.d1).den
  /\ solo.targetPosition = Vec(51, 0, 20)
  /\ solo.currentPosition = Vec(52, 0, 20)
  /\ solo.meshPosition = solo.currentPosition

\* the angle between two headings, in 0..180
HeadingDist(a, b) ==
  LET d == (a - b) % 360 IN IF d > 180 THEN 360 - d ELSE d

\* C16 (SpecSolo): with the target heading h fixed, an update(deltaTime)
\* with deltaTime > 0 never takes currentHeading farther from h (modulo 360),
\* and a vehicle whose currentHeading equals its target heading (as
\* setHeading leaves it) still reports currentHeading = h after the tick.
C16_HeadingConvergesToTarget ==
  [][(soloCall'.op = "update" /\ soloCall'.d1 > 0)
       => /\ HeadingDist(solo'.currentHeading, solo.targetHeading)
               <= HeadingDist(solo.currentHeading, solo.targetHeading)
          /\ HeadingDist(solo.currentHeading, solo.targetHeading) = 0
               => HeadingDist(solo'.currentHeading, solo.targetHeading) = 0]_vars

\* the shortest signed turn from heading c to heading t, in (-180, 180]
ShortestDiff(c, t) ==
  LET d == (t - c) % 360 IN IF d > 180 THEN d - 360 ELSE d

\* the mesh rotation is the one setHeading gives the current heading
HeadingAsSet(v) == v.meshRotationY = Round(v.currentHeading + 180, 1)

\* C17 (SpecSolo): for a current heading c given by setHeading and a target
\* heading t, one update(deltaTime) changes the heading by lerpFactor times
\* the shortest signed angular difference from c to t (modulo 360), so from
\* c = 350 to t = 10 the heading moves up through 0/360 by at most 20.
C17_TurnsTheShortWay ==
  [][(soloCall'.op = "update" /\ HeadingAsSet(solo))
       => LET f == LerpFactor(RotationLerpSpeed, soloCall'.d1)
              turn == Round(ShortestDiff(solo.currentHeading,
                                         solo.targetHeading) * f.num, f.den)
          IN (solo'.currentHeading - (solo.currentHeading + turn)) % 360 = 0]_vars

RoundingOf(c, t) == Ulp(t - c) + Ulp(t)

C19_DeselectRestoresMaterial ==
  \A id \in DOMAIN vehicles :
    ~vehicles[id].isSelected
      => vehicles[id].material = ModelMaterial(vehicles[id].type)

\* C20: after removeVehicle(id) for a registered id, id is no longer in the
\* registry, its mesh and its trail mesh are no longer in the scene, no
\* trail pool slot is held for id, and if id was the selected vehicle then
\* selectedVehicleId is null and 'vehicle:deselected' was emitted; every
\* other vehicle, and its meshes in the scene, are unchanged.
SceneOfOthers(sc, id) == sc \ {MeshOf(id), TrailOf(id)}
C20_RemoveVehicleCleansUp ==
  [][mgrCall'.op = "removeVehicle" /\ mgrCall'.known
       => LET id == mgrCall'.id
          IN /\ id \notin DOMAIN vehicles'
             /\ MeshOf(id) \notin scene'
             /\ TrailOf(id) \notin scene'
             /\ id \notin DOMAIN activeTrails'
             /\ mgrCall'.selectedBefore = id
                  => /\ selectedVehicleId' = Null
                     /\ \E i \in DOMAIN mgrCall'.emitted :
                          mgrCall'.emitted[i] = "vehicle:deselected"
             /\ mgrCall'.selectedBefore # id
                  => selectedVehicleId' = selectedVehicleId
             /\ DOMAIN vehicles' = DOMAIN vehicles \ {id}
             /\ \A o \in DOMAIN vehicles' : vehicles'[o] = vehicles[o]
             /\ SceneOfOthers(scene', id) = SceneOfOthers(scene, id)]_vars
\* the selected vehicle, with a trail mesh in the scene, has been removed
\* while another vehicle with a trail mesh stays
C20_Witness ==
  /\ mgrCall.op = "removeVehicle" /\ mgrCall.known
  /\ mgrCall.id = "v2" /\ mgrCall.selectedBefore = "v2"
  /\ selectedVehicleId = Null
  /\ "v1" \in DOMAIN vehicles
  /\ scene = {MeshOf("v1"), TrailOf("v1")}
  /\ Len(vehicles["v1"].trailPositions) >= 2

\* C21: for a known id, updateVehicle(record) whose tripEvents has n entries,
\* more than the m entries of the vehicle's trip log, appends entries m..n-1
\* in order, and with n <= m leaves the log unchanged; the log is
\* append-only and the call does not throw.
TripLog(v) == IF v.tripHistory = None THEN <<>> ELSE v.tripHistory[1]
C21_TripLogAppendOnly ==
  [][mgrCall'.op = "updateVehicle" /\ mgrCall'.known
       => LET id == mgrCall'.id
              old == TripLog(vehicles[id])
              new == TripLog(vehicles'[id])
              evs == IF mgrCall'.data[1].tripEvents = None THEN <<>>
                     ELSE mgrCall'.data[1].tripEvents[1]
          IN /\ ~mgrCall'.threw
             /\ Len(new) >= Len(old)
             /\ SubSeq(new, 1, Len(old)) = old
             /\ new = IF Len(evs) > Len(old)
                      THEN old \o SubSeq(evs, Len(old) + 1, Len(evs))
                      ELSE old]_vars

\* C22: while trails are enabled through the VehicleManager, every trail
\* mesh present in the scene is backed by a pool slot owned by that vehicle,
\* so the number of trail meshes in the scene never exceeds the pool's
\* current size, which never exceeds maxSize.
TrailMeshes == {id \in DOMAIN vehicles : TrailOf(id) \in scene}
C22_TrailMeshesArePooled ==
  trailsEnabled
    => /\ \A id \in TrailMeshes :
            /\ id \in DOMAIN activeTrails
            /\ geometryPool[activeTrails[id].entry].inUse
            /\ geometryPool[activeTrails[id].entry].id = id
       /\ Cardinality(TrailMeshes) <= Len(geometryPool)
       /\ Len(geometryPool) <= maxSize

\* C23: for every vehicle and any sequence of enableTrail / disableTrail /
\* clearTrail / update calls, 0 <= trailPositions.length <= maxTrailLength;
\* when appending a point would exceed the cap the oldest point is removed
\* and the order of the remaining points is preserved (sliding window): an
\* update that changes the trail appends the sampled position, and drops
\* the first point when the trail was full.
C23_TrailWithinWindow ==
  /\ Len(solo.trailPositions) <= solo.maxTrailLength
  /\ soloCall.op = "update" /\ solo.trailPositions # soloCall.trailBefore
       => LET pushed == Append(soloCall.trailBefore, solo.currentPosition)
          IN solo.trailPositions =
               IF Len(soloCall.trailBefore) < solo.maxTrailLength
               THEN pushed
               ELSE SubSeq(pushed, 2, Len(pushed))
\* an update found a full trail of two points and slid it by one
C23_Witness ==
  /\ soloCall.op = "update"
  /\ solo.maxTrailLength = 2
  /\ Len(soloCall.trailBefore) = 2
  /\ solo.trailPositions =
       <<soloCall.trailBefore[2], solo.currentPosition>>
  /\ solo.trailPositions # soloCall.trailBefore

\* C24: in every reachable state a vehicle's trailMesh is non-null (present
\* in the scene) only if its trailPositions holds at least 2 points, and a
\* pooled trail mesh (the mesh of an active trail of the pool) is visible
\* only if its record holds at least 2 positions.
C24_MeshNeedsTwoPoints ==
  /\ solo.trailMesh => Len(solo.trailPositions) >= 2
  /\ solo.trailInScene => solo.trailMesh
  /\ \A id \in DOMAIN activeTrails :
       activeTrails[id].visible => activeTrails[id].positions >= 2
\* the vehicle shows a trail mesh while the pool shows a visible trail
C24_Witness ==
  /\ solo.trailMesh /\ solo.trailInScene
  /\ \E id \in DOMAIN activeTrails : activeTrails[id].visible

\* C25: after the type / status / group filters and the level selection
\* have been applied in any order, each registered vehicle's mesh.visible
\* equals the conjunction of all four filters evaluated on its latest
\* telemetry (type enabled, status enabled, group enabled or absent, level
\* equal to the selected level or 'all'); the registry's membership is
\* never changed by filtering.
PassesFilters(e, data) ==
  /\ Truthy(e.vehicleFilters.types, data.type)
  /\ Truthy(e.vehicleFilters.status, data.status)
  /\ data.group = Null \/ Truthy(e.vehicleFilters.groups, data.group)
  /\ e.selectedLevel = "all" \/ LevelKey(data.level) = e.selectedLevel
FilterEvents == {"vehicles:filter", "vehicles:filter:reset", "level:select"}
C25_VisibleIsConjunctionOfFilters ==
  [][expCall'.op \in FilterEvents
       => /\ DOMAIN vehicles' = DOMAIN vehicles
          /\ \A id \in DOMAIN vehicles' :
               /\ id \in DOMAIN experience'.vehicleData
               /\ vehicles'[id].meshVisible =
                    PassesFilters(experience', experience'.vehicleData[id])]_vars

\* C26: after every change of registry membership (vehicle created or
\* removed) and after every filter change, the aggregate counts (total,
\* per-type and per-level) have been handed to the UI and equal the values
\* derived from the registry at that moment (total = number of registered
\* vehicles).  The total is the count of 'vehicles:count' after a change
\* of membership, and the 'all' entry of the level counts in both cases;
\* type and level are those of the vehicle's latest record.
LevelOf(e, id) ==
  IF id \in DOMAIN e.vehicleData THEN LevelKey(e.vehicleData[id].level)
  ELSE "0"
TypeOf(e, id, v) ==
  IF id \in DOMAIN e.vehicleData THEN e.vehicleData[id].type ELSE v.type
C26_CountsFollowRegistry ==
  [][(DOMAIN vehicles' # DOMAIN vehicles \/ expCall'.op \in FilterEvents)
       => /\ DOMAIN vehicles' # DOMAIN vehicles
               => experience'.vehicleCount = Some(Cardinality(DOMAIN vehicles'))
          /\ experience'.typeCounts =
               Some([t \in TypeKeys |->
                       Cardinality({id \in DOMAIN vehicles' :
                                      TypeOf(experience', id,
                                             vehicles'[id]) = t})])
          /\ experience'.levelCounts =
               Some([k \in LevelKeys \cup {"all"} |->
                       IF k = "all" THEN Cardinality(DOMAIN vehicles')
                       ELSE Cardinality({id \in DOMAIN vehicles' :
                                           LevelOf(experience', id) = k})])]_vars

\* C27: handleMessage on a batch message with n records emits exactly n
\* 'vehicle:update' events, one per record in array order, so the registry
\* afterwards equals the one obtained by delivering the n records as single
\* messages; a message that is not valid JSON, or a batch without a
\* vehicles array, changes no state and propagates no exception.
RECURSIVE DeliverSingly(_, _, _)
DeliverSingly(app, records, i) ==
  IF i > Len(records) THEN app
  ELSE DeliverSingly(handleMessage(app, UpdateText(records[i])).app,
                     records, i + 1)
C27_BatchEqualsSingles ==
  [][serviceCall'.op = "onmessage"
       => LET text == serviceCall'.message[1]
              singly == DeliverSingly(App, text.vehicles[1], 1)
          IN /\ text.json /\ text.type = "vehicle_batch" /\ text.vehicles # None
                  => /\ serviceCall'.emitted = text.vehicles[1]
                     /\ vehicles' = singly.m.vehicles
                     /\ selectedVehicleId' = singly.m.selectedVehicleId
                     /\ scene' = singly.m.scene
                     /\ experience' = singly.e
             /\ ~text.json \/ (text.type = "vehicle_batch" /\ text.vehicles = None)
                  => /\ serviceCall'.emitted = <<>>
                     /\ UNCHANGED <<mgrVars, expVars, service>>]_vars
\* a batch of two records for the same vehicle has been handled: the
\* second record is the vehicle's target
C27_Witness ==
  /\ serviceCall.op = "onmessage"
  /\ serviceCall.message[1].type = "vehicle_batch"
  /\ Len(serviceCall.emitted) = 2
  /\ serviceCall.emitted[1].id = "v1" /\ serviceCall.emitted[2].id = "v1"
  /\ serviceCall.emitted[1].position # serviceCall.emitted[2].position
  /\ vehicles["v1"].targetPosition = serviceCall.emitted[2].position
  /\ experience.vehicleData["v1"] = serviceCall.emitted[2]

\* C28: a malformed telemetry record for a known id (missing or NaN
\* heading, or a position missing a coordinate) is a recoverable skip: the
\* vehicle keeps its prior target and current state for the malformed
\* fields, later update() ticks keep running for all vehicles, and after
\* the next valid record the vehicle's position and heading converge to
\* that record's values again; no state is permanently corrupted, so no
\* target, position or heading of a vehicle is ever NaN.
HasNaN(position) == \E i \in 1..3 : IsNaN(position[i])
C28_MalformedRecordSkipped ==
  /\ [][mgrCall'.op = "updateVehicle" /\ mgrCall'.known
          => LET id == mgrCall'.id
                 data == mgrCall'.data[1]
             IN /\ ~mgrCall'.threw
                /\ HasNaN(data.position)
                     => vehicles'[id].targetPosition = vehicles[id].targetPosition
                /\ IsNaN(data.heading)
                     => vehicles'[id].targetHeading = vehicles[id].targetHeading
                /\ vehicles'[id].currentPosition = vehicles[id].currentPosition
                /\ vehicles'[id].currentHeading = vehicles[id].currentHeading]_vars
  /\ [][mgrCall'.op = "update" => ~mgrCall'.threw]_vars
  /\ [](\A id \in DOMAIN vehicles :
          /\ ~HasNaN(vehicles[id].targetPosition)
          /\ ~HasNaN(vehicles[id].currentPosition)
          /\ ~HasNaN(vehicles[id].meshPosition)
          /\ ~IsNaN(vehicles[id].targetHeading)
          /\ ~IsNaN(vehicles[id].currentHeading))

\* C29: stopFollowMode and stopFPVMode are idempotent and callable in any
\* state: when the mode is inactive they change no state, calling them
\* twice has the same effect as once, and after a stop the mode is inactive
\* with vehicleId = null.
Inactive == [active |-> FALSE, vehicleId |-> Null]
C29_StopsAreIdempotent ==
  [][/\ expCall'.op = "stopFollowMode"
          => /\ ~experience.followMode.active
                  => UNCHANGED <<experience, vehicles, selectedVehicleId, scene>>
             /\ experience'.followMode = Inactive
             /\ stopFollowMode([m |-> Manager', e |-> experience']).e = experience'
             /\ stopFollowMode(stopFollowMode(App)) = stopFollowMode(App)
     /\ expCall'.op = "stopFPVMode"
          => /\ ~experience.fpvMode.active
                  => UNCHANGED <<experience, vehicles, selectedVehicleId, scene>>
             /\ experience'.fpvMode = Inactive
             /\ stopFPVMode([m |-> Manager', e |-> experience']).e = experience'
             /\ stopFPVMode(stopFPVMode(App)) = stopFPVMode(App)]_vars
\* stopFPVMode was called with the view inactive while a vehicle is
\* followed, and the follow mode with its disabled controls is untouched
C29_Witness ==
  /\ expCall.op = "stopFPVMode"
  /\ experience.fpvMode = Inactive
  /\ experience.followMode.active
  /\ ~experience.controlsEnabled

\* C30: in WebSocket mode reconnectAttempts never exceeds
\* maxReconnectAttempts and is reset to 0 on every successful open; if
\* every connection attempt closes without opening, then after exactly
\* maxReconnectAttempts retries the service eventually starts the
\* simulation (once) instead of retrying forever.
C30_ReconnectsThenSimulates ==
  /\ [](/\ service.reconnectAttempts <= service.maxReconnectAttempts
        /\ service.intervals <= 1)
  /\ [][serviceCall'.op = "onopen" => service'.reconnectAttempts = 0]_vars
  /\ [][serviceCall'.op = "onclose" /\ service'.intervals # service.intervals
          => /\ service.reconnectAttempts = service.maxReconnectAttempts
             /\ service'.isSimulating /\ service'.timers = 0]_vars
  /\ ([](~service.isConnected) => <>(service.isSimulating))
\* the service has fallen back to the simulation after two retries
C30_Witness ==
  /\ serviceCall.op = "onclose"
  /\ service.isSimulating /\ service.intervals = 1
  /\ service.maxReconnectAttempts = 2 /\ service.reconnectAttempts = 2
  /\ service.socket = "closed" /\ service.connects = 1

\* C31: in the master loop a vehicle's update interval follows its
\* priority tier, followed (100 ms) <= selected (200 ms) <= visible
\* (500 ms) <= background (2000 ms) <= idle (5000 ms): a tick updates a
\* vehicle exactly when the tick count is a multiple of its tier's
\* interval, so a moving vehicle that is neither followed, selected nor
\* visible is updated no more often than a visible one.
TierRate(s, vehicle) ==
  IF vehicle.id = s.followedVehicleId THEN FOLLOWED
  ELSE IF vehicle.id = s.selectedVehicleId THEN SELECTED
  ELSE IF vehicle.id \in s.visibleVehicleIds THEN VISIBLE
  ELSE IF vehicle.status = "idle" \/ vehicle.status = "maintenance" THEN IDLE
  ELSE BACKGROUND
UpdatedIds == {apiCall.updated[j].id : j \in DOMAIN apiCall.updated}
C31_UpdateIntervalFollowsTier ==
  [][apiCall'.op = "tick"
       => \A i \in DOMAIN api.simulatedVehicles :
            LET vehicle == api.simulatedVehicles[i]
            IN vehicle.id \in UpdatedIds'
                 <=> api'.tickCount % (TierRate(api, vehicle) \div MasterPeriod) = 0
    ]_vars

\* C32: emit(event) invokes every handler registered for the event even
\* when an earlier handler throws, and propagates no handler's exception
\* to the emitter: in a tick of the API service every due vehicle is
\* updated and emitted, each record reaches every handler of
\* 'vehicle:update' in registration order, and with the listener of the
\* Experience registered every record is applied to the registry, also
\* after a handler (that listener included) has thrown.
Fail == [cb |-> "fail", once |-> FALSE]
Listener == [cb |-> "experience", once |-> FALSE]
C32_HandlerExceptionsAreContained ==
  [][apiCall'.op = "tick" /\ api'.tickCount = api.tickCount + 1
       => LET hs == bus.listeners["vehicle:update"]
              n == Len(apiCall'.updated)
          IN /\ UpdatedIds' = {api.simulatedVehicles[i].id :
                                 i \in DOMAIN api.simulatedVehicles}
             /\ Len(apiCall'.trace) = n * Len(hs)
             /\ \A j \in DOMAIN apiCall'.trace :
                  apiCall'.trace[j] = hs[((j - 1) % Len(hs)) + 1]
             /\ Has(bus, "vehicle:update", Listener)
                  => \A j \in 1..n :
                       LET r == apiCall'.updated[j]
                       IN /\ r.id \in DOMAIN vehicles'
                          /\ vehicles'[r.id].targetPosition = r.position
             /\ bus' = bus
    ]_vars
\* a tick has emitted two records to a throwing handler registered before
\* the listener of the Experience; v1 was registered before, so that the
\* listener itself threw on its record (tripEvents without tripHistory),
\* and both records are the vehicles' targets
C32_Witness ==
  /\ apiCall.op = "tick"
  /\ bus.listeners["vehicle:update"] = <<Fail, Listener>>
  /\ Len(apiCall.updated) = 2
  /\ apiCall.trace = <<Fail, Listener, Fail, Listener>>
  /\ DOMAIN vehicles = {"v1", "v2"}
  /\ vehicles["v1"].targetPosition = apiCall.updated[1].position
  /\ vehicles["v2"].targetPosition = apiCall.updated[2].position
  /\ vehicles["v1"].targetPosition # vehicles["v1"].currentPosition
  /\ vehicles["v2"].targetPosition # vehicles["v2"].currentPosition

\* C33: a handler registered with once(event, cb) is invoked at most once
\* over any sequence of emits of the event, an emit issued from inside the
\* handler included.
C33_OnceHandlerInvokedAtMostOnce ==
  \A event \in Events : \A cb \in OnceCallbacks : bus.calls[event][cb] <= 1

\* C35: after every render tick that ran its updates, an active follow
\* mode has a registered vehicle and an active first-person mode has a
\* registered vehicle; a mode whose vehicle was removed is inactive after
\* the tick.
Modes == {"followMode", "fpvMode"}
C35_ModesFollowRegisteredVehicles ==
  [][lifeCall'.op = "tick" /\ life'.frames = life.frames + 1
       /\ lifeCall'.rendered
       => /\ \A mode \in Modes :
               experience'[mode].active
                 => experience'[mode].vehicleId \in DOMAIN vehicles'
          /\ \A mode \in lifeCall'.lost : ~experience'[mode].active
    ]_vars
\* a tick found the follow mode on a vehicle that had been removed and
\* stopped it
C35_Witness ==
  /\ lifeCall.op = "tick"
  /\ lifeCall.rendered
  /\ lifeCall.lost = {"followMode"}
  /\ ~experience.followMode.active
  /\ experience.followedVehicle = Null
  /\ experience.controlsEnabled

\* C36: over any sequence of 'vehicle:follow:start', 'vehicle:follow:stop',
\* 'fpv:start', 'fpv:stop', deselect and camera-reset events, the follow
\* mode and the first-person mode are never active together, and the orbit
\* controls are disabled whenever either is active.
C36_ModesExclusiveControlsOff ==
  /\ ~(experience.followMode.active /\ experience.fpvMode.active)
  /\ experience.followMode.active \/ experience.fpvMode.active
       => ~experience.controlsEnabled

\* C37: after every handled event UIController.isFollowingVehicle equals
\* Experience.followMode.active.
C37_UIFollowFlagMatches ==
  experience.isFollowingVehicle = experience.followMode.active

\* C38: after WebSocketService.disconnect() no further connection attempt
\* is made and no simulation is started: neither the close callback of the
\* socket nor a pending reconnect timer opens a socket or starts the
\* simulation interval.
C38_DisconnectIsFinal ==
  [][service.disconnected
       => /\ service'.socket = "connecting" => service.socket = "connecting"
          /\ service'.intervals <= service.intervals
          /\ service'.timers <= service.timers
    ]_vars

\* C39: once Experience.dispose() has been called no render tick advances
\* a vehicle and no telemetry timer is running, whatever the interleaving
\* of dispose() with the awaited steps of init() and with pause() and
\* resume().
C39_DisposeIsFinal ==
  /\ [](life.disposed => ~api.masterUpdateInterval)
  /\ [][life.disposed /\ life'.frames # life.frames
          => ~lifeCall'.advanced]_vars
\* C34: for every simulated vehicle with a path of at least 2 points and
\* any number of updateVehicle steps, currentWaypointIndex stays within
\* [0, path.length - 1], pathDirection is +1 or -1, and each emitted
\* position lies on the path segment between path[currentWaypointIndex]
\* and its neighbour in pathDirection; the waypoint index moves by at most
\* one per step (back and forth, no jump between non-adjacent points).
OnSegment(p, a, b) ==
  /\ \A i \in 1..3 :
       \/ a[i] <= p[i] /\ p[i] <= b[i]
       \/ b[i] <= p[i] /\ p[i] <= a[i]
  /\ \A i, j \in 1..3 :
       (p[i] - a[i]) * (b[j] - a[j]) = (p[j] - a[j]) * (b[i] - a[i])
C34_SimulatedVehicleStaysOnPath ==
  [][apiCall'.op = "tick"
       => \A i \in DOMAIN api'.simulatedVehicles :
            LET vehicle == api'.simulatedVehicles[i]
                before == api.simulatedVehicles[i]
                idx == vehicle.currentWaypointIndex
                neighbour == idx + vehicle.pathDirection
            IN vehicle.id \in UpdatedIds' /\ Len(vehicle.path) >= 2
                 => /\ idx \in 0..(Len(vehicle.path) - 1)
                    /\ vehicle.pathDirection \in {1, 0 - 1}
                    /\ neighbour \in 0..(Len(vehicle.path) - 1)
                    /\ OnSegment(vehicle.position, vehicle.path[idx + 1],
                                 vehicle.path[neighbour + 1])
                    /\ Abs(idx - before.currentWaypointIndex) <= 1
                    /\ \E j \in DOMAIN apiCall'.updated :
                         /\ apiCall'.updated[j].id = vehicle.id
                         /\ apiCall'.updated[j].position = vehicle.position
    ]_vars
\* a vehicle on the three-point path has turned at the far end and is on
\* its way back, inside the last segment
C34_Witness ==
  /\ apiCall.op = "tick"
  /\ \E i \in DOMAIN api.simulatedVehicles :
       LET vehicle == api.simulatedVehicles[i]
       IN /\ vehicle.id \in UpdatedIds
          /\ Len(vehicle.path) = 3
          /\ vehicle.pathDirection = 0 - 1
          /\ vehicle.currentWaypointIndex = 2
          /\ vehicle.pathProgress > 0
          /\ vehicle.position # vehicle.path[3]
          /\ vehicle.tripEvents = Some(<<"dump">>)

====
